---- MODULE Spec2Model ----
(***************************************************************************)
(* URL normaliser of KasperskyLab/threat-intelligence (normalize_url).     *)
(*                                                                         *)
(* A Go string is modelled as a sequence of bytes; a byte is a one-        *)
(* character TLA+ string for printable ASCII and an atom "<HH>" otherwise  *)
(* (ByteTable).  Go's error values are modelled by their kind (a string).  *)
(***************************************************************************)
EXTENDS Integers, Sequences, FiniteSets, TLC

\* the state of a call of one of the package's functions
VARIABLES pc, raw, added, parts, res, res2, alt

\* the state of the command-line driver: its flag and input, the producer
\* goroutine, the channel and the context, and main's loop
VARIABLES strictMode, input, pos, producer, ch, cancelled,
          main, taken, outFile, succeeded, failed, logs

driverVars ==
   <<strictMode, input, pos, producer, ch, cancelled, main, taken, outFile, succeeded, failed, logs>>

vars == <<pc, raw, added, parts, res, res2, alt, driverVars>>

\* the driver is not running
DriverIdle ==
   /\ strictMode = FALSE
   /\ input = <<>>
   /\ pos = 0
   /\ producer = "idle"
   /\ ch = <<>>
   /\ cancelled = FALSE
   /\ main = "idle"
   /\ taken = 0
   /\ outFile = <<>>
   /\ succeeded = 0
   /\ failed = 0
   /\ logs = <<>>

(***************************************************************************)
(* Bytes                                                                   *)
(***************************************************************************)
ByteTable ==
   <<
      "<00>", "<01>", "<02>", "<03>", "<04>", "<05>", "<06>", "<07>", "<08>", "<09>", "<0A>", "<0B>", "<0C>", "<0D>", "<0E>", "<0F>",
      "<10>", "<11>", "<12>", "<13>", "<14>", "<15>", "<16>", "<17>", "<18>", "<19>", "<1A>", "<1B>", "<1C>", "<1D>", "<1E>", "<1F>",
      " ", "!", "\"", "#", "$", "%", "&", "'", "(", ")", "*", "+", ",", "-", ".", "/",
      "0", "1", "2", "3", "4", "5", "6", "7", "8", "9", ":", ";", "<", "=", ">", "?",
      "@", "A", "B", "C", "D", "E", "F", "G", "H", "I", "J", "K", "L", "M", "N", "O",
      "P", "Q", "R", "S", "T", "U", "V", "W", "X", "Y", "Z", "[", "\\", "]", "^", "_",
      "<60>", "a", "b", "c", "d", "e", "f", "g", "h", "i", "j", "k", "l", "m", "n", "o",
      "p", "q", "r", "s", "t", "u", "v", "w", "x", "y", "z", "{", "|", "}", "~", "<7F>",
      "<80>", "<81>", "<82>", "<83>", "<84>", "<85>", "<86>", "<87>", "<88>", "<89>", "<8A>", "<8B>", "<8C>", "<8D>", "<8E>", "<8F>",
      "<90>", "<91>", "<92>", "<93>", "<94>", "<95>", "<96>", "<97>", "<98>", "<99>", "<9A>", "<9B>", "<9C>", "<9D>", "<9E>", "<9F>",
      "<A0>", "<A1>", "<A2>", "<A3>", "<A4>", "<A5>", "<A6>", "<A7>", "<A8>", "<A9>", "<AA>", "<AB>", "<AC>", "<AD>", "<AE>", "<AF>",
      "<B0>", "<B1>", "<B2>", "<B3>", "<B4>", "<B5>", "<B6>", "<B7>", "<B8>", "<B9>", "<BA>", "<BB>", "<BC>", "<BD>", "<BE>", "<BF>",
      "<C0>", "<C1>", "<C2>", "<C3>", "<C4>", "<C5>", "<C6>", "<C7>", "<C8>", "<C9>", "<CA>", "<CB>", "<CC>", "<CD>", "<CE>", "<CF>",
      "<D0>", "<D1>", "<D2>", "<D3>", "<D4>", "<D5>", "<D6>", "<D7>", "<D8>", "<D9>", "<DA>", "<DB>", "<DC>", "<DD>", "<DE>", "<DF>",
      "<E0>", "<E1>", "<E2>", "<E3>", "<E4>", "<E5>", "<E6>", "<E7>", "<E8>", "<E9>", "<EA>", "<EB>", "<EC>", "<ED>", "<EE>", "<EF>",
      "<F0>", "<F1>", "<F2>", "<F3>", "<F4>", "<F5>", "<F6>", "<F7>", "<F8>", "<F9>", "<FA>", "<FB>", "<FC>", "<FD>", "<FE>", "<FF>"
   >>

Chr(n) == ByteTable[n + 1]

Ord(c) == CHOOSE n \in 0..255 : ByteTable[n + 1] = c

\* the bytes below 0x20 and 0x7F, and the bytes from 0x80 on
CtlBytes == {ByteTable[n] : n \in 1..32} \cup {ByteTable[128]}

HighBytes == {ByteTable[n] : n \in 129..256}

UpperLetters ==
   <<"A", "B", "C", "D", "E", "F", "G", "H", "I", "J", "K", "L", "M",
     "N", "O", "P", "Q", "R", "S", "T", "U", "V", "W", "X", "Y", "Z">>

LowerLetters ==
   <<"a", "b", "c", "d", "e", "f", "g", "h", "i", "j", "k", "l", "m",
     "n", "o", "p", "q", "r", "s", "t", "u", "v", "w", "x", "y", "z">>

DecDigits == <<"0", "1", "2", "3", "4", "5", "6", "7", "8", "9">>

IsUpper(c) == \E i \in 1..26 : UpperLetters[i] = c

IsLower(c) == \E i \in 1..26 : LowerLetters[i] = c

IsDigit(c) == \E i \in 1..10 : DecDigits[i] = c

IsAlpha(c) == IsUpper(c) \/ IsLower(c)

\* strconv: the value of a digit character in any base up to 36, -1 if none
DigitVal(c) ==
   IF IsDigit(c) THEN (CHOOSE i \in 1..10 : DecDigits[i] = c) - 1
   ELSE IF IsLower(c) THEN (CHOOSE i \in 1..26 : LowerLetters[i] = c) + 9
   ELSE IF IsUpper(c) THEN (CHOOSE i \in 1..26 : UpperLetters[i] = c) + 9
   ELSE -1

\* net/url ishex / unhex
IsHex(c) == LET hex(d) == d >= 0 /\ d < 16 IN hex(DigitVal(c))

LowerByte(c) ==
   IF IsUpper(c) THEN LowerLetters[CHOOSE i \in 1..26 : UpperLetters[i] = c]
   ELSE c

\* bytes.IsSpace for the ASCII white space strings.TrimSpace removes
IsSpace(c) == c \in {" ", "<09>", "<0A>", "<0B>", "<0C>", "<0D>"}

(***************************************************************************)
(* package strings                                                         *)
(***************************************************************************)
ToLower(s) == [i \in 1..Len(s) |-> LowerByte(s[i])]

HasPrefix(s, p) == Len(s) >= Len(p) /\ SubSeq(s, 1, Len(p)) = p

HasSuffix(s, p) ==
   Len(s) >= Len(p) /\ SubSeq(s, Len(s) - Len(p) + 1, Len(s)) = p

TrimPrefix(s, p) == IF HasPrefix(s, p) THEN SubSeq(s, Len(p) + 1, Len(s)) ELSE s

TrimSuffix(s, p) == IF HasSuffix(s, p) THEN SubSeq(s, 1, Len(s) - Len(p)) ELSE s

\* index of the first byte c of s, 0 if none
IndexByte(s, c) ==
   IF \E i \in 1..Len(s) : s[i] = c
   THEN CHOOSE i \in 1..Len(s) : s[i] = c /\ \A j \in 1..(i - 1) : s[j] # c
   ELSE 0

LastIndexByte(s, c) ==
   IF \E i \in 1..Len(s) : s[i] = c
   THEN CHOOSE i \in 1..Len(s) : s[i] = c /\ \A j \in (i + 1)..Len(s) : s[j] # c
   ELSE 0

\* index of the first occurrence of the non-empty string sub in s, 0 if none
Index(s, sub) ==
   LET hits == {i \in 1..(Len(s) - Len(sub) + 1) : SubSeq(s, i, i + Len(sub) - 1) = sub}
   IN  IF hits = {} THEN 0 ELSE CHOOSE i \in hits : \A j \in hits : i <= j

Contains(s, sub) == Index(s, sub) # 0

CountByte(s, c) == Cardinality({i \in 1..Len(s) : s[i] = c})

\* strings.Cut(s, sep) for a one-byte separator: <<before, after, found>>
Cut(s, c) ==
   LET i == IndexByte(s, c)
   IN  IF i = 0 THEN <<s, <<>>, FALSE>>
       ELSE <<SubSeq(s, 1, i - 1), SubSeq(s, i + 1, Len(s)), TRUE>>

\* strings.TrimLeft(s, cutset) for a one-byte cutset
TrimLeft(s, c) ==
   IF \A i \in 1..Len(s) : s[i] = c THEN <<>>
   ELSE SubSeq(s, CHOOSE i \in 1..Len(s) : s[i] # c /\ \A j \in 1..(i - 1) : s[j] = c, Len(s))

TrimSpace(s) ==
   IF \A i \in 1..Len(s) : IsSpace(s[i]) THEN <<>>
   ELSE LET a == CHOOSE i \in 1..Len(s) : ~IsSpace(s[i]) /\ \A j \in 1..(i - 1) : IsSpace(s[j])
            b == CHOOSE i \in 1..Len(s) : ~IsSpace(s[i]) /\ \A j \in (i + 1)..Len(s) : IsSpace(s[j])
        IN  SubSeq(s, a, b)

\* strings.Trim(s, cutset) for a cutset given as a set of bytes
TrimSet(s, cs) ==
   IF \A i \in 1..Len(s) : s[i] \in cs THEN <<>>
   ELSE LET a == CHOOSE i \in 1..Len(s) : s[i] \notin cs /\ \A j \in 1..(i - 1) : s[j] \in cs
            b == CHOOSE i \in 1..Len(s) : s[i] \notin cs /\ \A j \in (i + 1)..Len(s) : s[j] \in cs
        IN  SubSeq(s, a, b)

RECURSIVE Split(_, _)
\* strings.Split(s, sep) for a one-byte separator: always at least one part
Split(s, c) ==
   LET i == IndexByte(s, c)
   IN  IF i = 0 THEN <<s>>
       ELSE <<SubSeq(s, 1, i - 1)>> \o Split(SubSeq(s, i + 1, Len(s)), c)

RECURSIVE Join(_, _)
Join(ps, sep) ==
   IF Len(ps) = 0 THEN <<>>
   ELSE IF Len(ps) = 1 THEN ps[1]
   ELSE ps[1] \o sep \o Join(Tail(ps), sep)

RECURSIVE ReplaceAll(_, _, _)
\* strings.ReplaceAll(s, old, new) for a non-empty old
ReplaceAll(s, old, new) ==
   LET i == Index(s, old)
   IN  IF i = 0 THEN s
       ELSE SubSeq(s, 1, i - 1) \o new
            \o ReplaceAll(SubSeq(s, i + Len(old), Len(s)), old, new)

(***************************************************************************)
(* Results                                                                 *)
(***************************************************************************)
NoParts == <<>>

Ok(v) == [ok |-> TRUE, val |-> v, err |-> ""]

Fail(e) == [ok |-> FALSE, val |-> <<>>, err |-> e]

None == [ok |-> FALSE, val |-> <<>>, err |-> "none"]

(***************************************************************************)
(* package strconv.  A uint64 below 2^32 is kept as two 16-bit limbs       *)
(* <<hi, lo>>, so that no intermediate exceeds the checker's integers.     *)
(***************************************************************************)
Limb == 256 * 256

U32(hi, lo) == <<hi, lo>>

LeqU32(a, b) == a[1] < b[1] \/ (a[1] = b[1] /\ a[2] <= b[2])

\* n * m + d for m, d < 2^8; the third component tells whether 2^32 is passed
MulAddU32(n, m, d) ==
   LET lo == n[2] * m + d
       hi == n[1] * m + (lo \div Limb)
   IN  <<hi % Limb, lo % Limb, hi >= Limb>>

RECURSIVE ParseUintFrom(_, _, _, _)
\* strconv.ParseUint's digit loop from byte i of s on, n being the value so far
ParseUintFrom(s, i, base, n) ==
   LET next(m) ==
          IF m[3] THEN [ok |-> FALSE, val |-> U32(0, 0), err |-> "strconv.ErrRange"]
          ELSE ParseUintFrom(s, i + 1, base, U32(m[1], m[2]))
       digit(d) ==
          IF d < 0 \/ d >= base THEN [ok |-> FALSE, val |-> U32(0, 0), err |-> "strconv.ErrSyntax"]
          ELSE next(MulAddU32(n, base, d))
   IN  IF i > Len(s) THEN [ok |-> TRUE, val |-> n, err |-> ""]
       ELSE digit(DigitVal(s[i]))

\* strconv.ParseUint(s, base, 32) for base 8, 10 or 16
ParseUint(s, base) ==
   IF s = <<>> THEN [ok |-> FALSE, val |-> U32(0, 0), err |-> "strconv.ErrSyntax"]
   ELSE ParseUintFrom(s, 1, base, U32(0, 0))

RECURSIVE Itoa(_)
\* strconv.Itoa for n >= 0
Itoa(n) == IF n < 10 THEN <<DecDigits[n + 1]>> ELSE Itoa(n \div 10) \o <<DecDigits[(n % 10) + 1]>>

(***************************************************************************)
(* internal/ip: NormalizeIPv4                                              *)
(***************************************************************************)
getBase(str) ==
   IF HasPrefix(str, <<"0", "x">>) THEN 16
   ELSE IF HasPrefix(str, <<"0">>) /\ Len(str) # 1 THEN 8
   ELSE 10

\* maxNum as the largest 32-bit value whatever the number of blocks
maxNumFor_FullWidth(blocksCount) == U32(Limb - 1, Limb - 1)

RECURSIVE maxNumFor(_)
\* maxNum after the loop of parseNumber: 0xFF multiplied by 0xFF once per extra block
maxNumFor(blocksCount) ==
   IF blocksCount <= 1 THEN U32(0, 255)
   ELSE LET m == MulAddU32(maxNumFor(blocksCount - 1), 255, 0) IN U32(m[1], m[2])

parseNumber(str, blocksCount) ==
   LET base == getBase(str)
       checked(p) ==
          IF ~p.ok THEN p
          ELSE IF ~LeqU32(p.val, maxNumFor(blocksCount))
               THEN [ok |-> FALSE, val |-> U32(0, 0), err |-> "num too big for ip"]
               ELSE p
   IN  checked(CASE base = 16 -> ParseUint(SubSeq(str, 3, Len(str)), 16)
                 [] base = 8  -> ParseUint(SubSeq(str, 2, Len(str)), 8)
                 [] OTHER     -> ParseUint(str, 10))

\* uint32ToIPv4 returning all four blocks, without parts[needBlocks:]
uint32ToIPv4_AllBlocks(ip, needBlocks) ==
   Itoa(ip[1] \div 256) \o <<".">> \o Itoa(ip[1] % 256) \o <<".">>
      \o Itoa(ip[2] \div 256) \o <<".">> \o Itoa(ip[2] % 256)

\* net.IP{b1, b2, b3, b4}.String(), split on "." and joined from needBlocks on
uint32ToIPv4(ip, needBlocks) ==
   LET result == Itoa(ip[1] \div 256) \o <<".">> \o Itoa(ip[1] % 256) \o <<".">>
                 \o Itoa(ip[2] \div 256) \o <<".">> \o Itoa(ip[2] % 256)
       ps == Split(result, ".")
   IN  Join(SubSeq(ps, needBlocks + 1, Len(ps)), <<".">>)

RECURSIVE ipv4Row(_, _, _)
\* the loop of NormalizeIPv4 over the octets before the last, from octet i on
ipv4Row(octets, i, resultRow) ==
   LET parsed(p) ==
          IF ~p.ok THEN Fail(p.err)
          ELSE ipv4Row(octets, i + 1, resultRow \o Itoa(p.val[2]) \o <<".">>)
   IN  IF i > Len(octets) - 1 THEN Ok(resultRow)
       ELSE parsed(parseNumber(octets[i], 1))

\* NormalizeIPv4 without the check of len(octets) > 4
NormalizeIPv4_NoCountCheck(str) ==
   LET s == TrimSpace(str)
       octets == Split(s, ".")
       last(row, p) ==
          IF ~p.ok THEN Fail(p.err)
          ELSE Ok(row.val \o uint32ToIPv4(p.val, Len(octets) - 1))
       heads(row) ==
          IF ~row.ok THEN row
          ELSE last(row, parseNumber(octets[Len(octets)], 5 - Len(octets)))
   IN  IF s = <<>> THEN Fail("ErrEmptyValue")
       ELSE heads(ipv4Row(octets, 1, <<>>))

NormalizeIPv4(str) ==
   LET s == TrimSpace(str)
       octets == Split(s, ".")
       last(row, p) ==
          IF ~p.ok THEN Fail(p.err)
          ELSE Ok(row.val \o uint32ToIPv4(p.val, Len(octets) - 1))
       heads(row) ==
          IF ~row.ok THEN row
          ELSE last(row, parseNumber(octets[Len(octets)], 5 - Len(octets)))
   IN  IF s = <<>> THEN Fail("ErrEmptyValue")
       ELSE IF Len(octets) > 4 THEN Fail("ErrInvalidIPv4")
       ELSE heads(ipv4Row(octets, 1, <<>>))

(***************************************************************************)
(* package net/url (Go standard library), as far as url.Parse,             *)
(* URL.EscapedPath, url.PathUnescape and url.QueryUnescape go.             *)
(***************************************************************************)
\* the characters shouldEscape lets through in a host
HostPunct ==
   {"!", "$", "&", "'", "(", ")", "*", "+", ",", ";", "=", ":", "[", "]", "<", ">", "\""}

\* shouldEscape(c, mode) for mode "host" (encodeHost) and "path" (encodePath)
shouldEscape(c, mode) ==
   IF IsAlpha(c) \/ IsDigit(c) THEN FALSE
   ELSE IF mode = "host" /\ c \in HostPunct THEN FALSE
   ELSE IF c \in {"-", "_", ".", "~"} THEN FALSE
   ELSE IF c \in {"$", "&", "+", ",", "/", ":", ";", "=", "?", "@"} /\ mode = "path" THEN c = "?"
   ELSE TRUE

RECURSIVE unescapeCheck(_, _, _)
\* the first loop of unescape from byte i on: "" if the string is well formed,
\* else the kind of the error
unescapeCheck(s, i, mode) ==
   IF i > Len(s) THEN ""
   ELSE IF s[i] = "%"
        THEN IF i + 2 > Len(s) \/ ~IsHex(s[i + 1]) \/ ~IsHex(s[i + 2])
             THEN "invalid URL escape"
             ELSE IF mode = "host" /\ DigitVal(s[i + 1]) < 8 /\ SubSeq(s, i, i + 2) # <<"%", "2", "5">>
             THEN "invalid URL escape"
             ELSE unescapeCheck(s, i + 3, mode)
        ELSE IF mode = "host" /\ s[i] \notin HighBytes /\ shouldEscape(s[i], "host")
             THEN "invalid character in host name"
             ELSE unescapeCheck(s, i + 1, mode)

RECURSIVE unescapeDecode(_, _, _)
\* the second loop of unescape: %XX to its byte, "+" to a space in a query
unescapeDecode(s, i, mode) ==
   IF i > Len(s) THEN <<>>
   ELSE IF s[i] = "%"
        THEN <<Chr(DigitVal(s[i + 1]) * 16 + DigitVal(s[i + 2]))>> \o unescapeDecode(s, i + 3, mode)
        ELSE IF s[i] = "+" /\ mode = "query"
             THEN <<" ">> \o unescapeDecode(s, i + 1, mode)
             ELSE <<s[i]>> \o unescapeDecode(s, i + 1, mode)

\* unescape(s, mode), mode one of "host", "path", "segment", "query",
\* "fragment", "user"
unescape(s, mode) ==
   LET checked(e) == IF e # "" THEN Fail(e) ELSE Ok(unescapeDecode(s, 1, mode))
   IN  checked(unescapeCheck(s, 1, mode))

PathUnescape(s) == unescape(s, "segment")

QueryUnescape(s) == unescape(s, "query")

UpperHex == <<"0", "1", "2", "3", "4", "5", "6", "7", "8", "9", "A", "B", "C", "D", "E", "F">>

RECURSIVE escapePath(_)
\* escape(s, encodePath)
escapePath(s) ==
   IF s = <<>> THEN <<>>
   ELSE (IF shouldEscape(s[1], "path")
         THEN <<"%", UpperHex[(Ord(s[1]) \div 16) + 1], UpperHex[(Ord(s[1]) % 16) + 1]>>
         ELSE <<s[1]>>) \o escapePath(Tail(s))

\* validEncoded(s, encodePath)
validEncoded(s) ==
   \A i \in 1..Len(s) :
      \/ s[i] \in {"!", "$", "&", "'", "(", ")", "*", "+", ",", ";", "=", ":", "@", "[", "]", "%"}
      \/ ~shouldEscape(s[i], "path")

stringContainsCTLByte(s) == \E i \in 1..Len(s) : s[i] \in CtlBytes

validOptionalPort(port) ==
   \/ port = <<>>
   \/ port[1] = ":" /\ \A i \in 2..Len(port) : IsDigit(port[i])

validUserinfo(s) ==
   \A i \in 1..Len(s) :
      \/ IsAlpha(s[i]) \/ IsDigit(s[i])
      \/ s[i] \in {"-", ".", "_", ":", "~", "!", "$", "&", "'", "(", ")", "*", "+", ",", ";", "=", "%", "@"}

\* parseHost; the zone of a bracketed IP literal ("%25" inside "[...]") is left out
parseHost(host) ==
   LET i == LastIndexByte(host, ":")
   IN  IF HasPrefix(host, <<"[">>)
       THEN LET j == LastIndexByte(host, "]")
            IN  IF j = 0 THEN Fail("missing ']' in host")
                ELSE IF ~validOptionalPort(SubSeq(host, j + 1, Len(host))) THEN Fail("invalid port after host")
                ELSE unescape(host, "host")
       ELSE IF i # 0 /\ ~validOptionalPort(SubSeq(host, i, Len(host))) THEN Fail("invalid port after host")
       ELSE unescape(host, "host")

\* parseAuthority, returning the host only
parseAuthority(authority) ==
   LET i == LastIndexByte(authority, "@")
       userinfo == SubSeq(authority, 1, i - 1)
       c == Cut(userinfo, ":")
       password(pw, h) == IF ~pw.ok THEN pw ELSE h
       username(us, h) == IF ~us.ok THEN us ELSE password(unescape(c[2], "user"), h)
       hosted(h) ==
          IF ~h.ok \/ i = 0 THEN h
          ELSE IF ~validUserinfo(userinfo) THEN Fail("invalid userinfo")
          ELSE username(unescape(c[1], "user"), h)
   IN  hosted(parseHost(IF i = 0 THEN authority ELSE SubSeq(authority, i + 1, Len(authority))))

\* getScheme: <<scheme, rest, error>>
getScheme(rawURL) ==
   LET stops == {i \in 1..Len(rawURL) :
                    ~IsAlpha(rawURL[i])
                    /\ ~(i > 1 /\ (IsDigit(rawURL[i]) \/ rawURL[i] \in {"+", "-", "."}))}
       i == IF stops = {} THEN 0 ELSE CHOOSE k \in stops : \A j \in stops : k <= j
   IN  IF i = 0 \/ rawURL[i] # ":" THEN <<<<>>, rawURL, "">>
       ELSE IF i = 1 THEN <<<<>>, <<>>, "missing protocol scheme">>
       ELSE <<SubSeq(rawURL, 1, i - 1), SubSeq(rawURL, i + 1, Len(rawURL)), "">>

\* a *url.URL and the error returned with it: err is the kind of the
\* *url.Error's Err, ErrURL its URL field
NoURL ==
   [ok |-> FALSE, err |-> "", ErrURL |-> <<>>, Scheme |-> <<>>, Opaque |-> <<>>, Host |-> <<>>, Path |-> <<>>,
    RawPath |-> <<>>, ForceQuery |-> FALSE, RawQuery |-> <<>>, Fragment |-> <<>>]

\* setPath: Path is the unescaped path, RawPath the original when it is not
\* the default encoding of Path
setPath(u, p) ==
   LET set(path) ==
          IF ~path.ok THEN [NoURL EXCEPT !.err = path.err]
          ELSE [u EXCEPT !.ok = TRUE, !.Path = path.val,
                         !.RawPath = IF escapePath(path.val) = p THEN <<>> ELSE p]
   IN  set(unescape(p, "path"))

\* parse(rawURL, viaRequest = false)
parse(rawURL) ==
   LET \* the part of parse after the scheme and the query are cut off
       located(scheme, force, rawQuery, rest) ==
          LET u0 == [NoURL EXCEPT !.Scheme = scheme, !.ForceQuery = force, !.RawQuery = rawQuery]
              slash == IndexByte(SubSeq(rest, 3, Len(rest)), "/")
              authority == IF slash = 0 THEN SubSeq(rest, 3, Len(rest)) ELSE SubSeq(rest, 3, slash + 1)
              after == IF slash = 0 THEN <<>> ELSE SubSeq(rest, slash + 2, Len(rest))
              hosted(h) ==
                 IF ~h.ok THEN [NoURL EXCEPT !.err = h.err]
                 ELSE setPath([u0 EXCEPT !.Host = h.val], after)
          IN  IF ~HasPrefix(rest, <<"/">>) /\ scheme # <<>>
              THEN [u0 EXCEPT !.ok = TRUE, !.Opaque = rest]
              ELSE IF ~HasPrefix(rest, <<"/">>) /\ Contains(Cut(rest, "/")[1], <<":">>)
                   THEN [NoURL EXCEPT !.err = "first path segment in URL cannot contain colon"]
              ELSE IF (scheme # <<>> \/ ~HasPrefix(rest, <<"/", "/", "/">>)) /\ HasPrefix(rest, <<"/", "/">>)
                   THEN hosted(parseAuthority(authority))
                   ELSE setPath(u0, rest)
       queried(sc, force, q) ==
          IF sc[3] # "" THEN [NoURL EXCEPT !.err = sc[3]]
          ELSE located(ToLower(sc[1]), force, IF force THEN <<>> ELSE q[2],
                       IF force THEN SubSeq(sc[2], 1, Len(sc[2]) - 1) ELSE q[1])
       schemed(sc) ==
          queried(sc, HasSuffix(sc[2], <<"?">>) /\ CountByte(sc[2], "?") = 1, Cut(sc[2], "?"))
   IN  IF stringContainsCTLByte(rawURL) THEN [NoURL EXCEPT !.err = "invalid control character in URL"]
       ELSE IF rawURL = <<"*">> THEN [NoURL EXCEPT !.ok = TRUE, !.Path = <<"*">>]
       ELSE schemed(getScheme(rawURL))

\* url.Parse: the fragment is cut off first and unescaped last; an error
\* names the text without the fragment, a fragment's error the whole text
Parse(rawURL) ==
   LET c == Cut(rawURL, "#")
       fragment(u, frag) ==
          IF ~frag.ok THEN [NoURL EXCEPT !.err = frag.err, !.ErrURL = rawURL]
          ELSE [u EXCEPT !.Fragment = frag.val]
       parsed(u) ==
          IF ~u.ok THEN [u EXCEPT !.ErrURL = c[1]]
          ELSE IF c[2] = <<>> THEN u
          ELSE fragment(u, unescape(c[2], "fragment"))
   IN  parsed(parse(c[1]))

\* URL.EscapedPath
EscapedPath(u) ==
   IF u.RawPath # <<>> /\ validEncoded(u.RawPath) /\ unescape(u.RawPath, "path") = Ok(u.Path)
   THEN u.RawPath
   ELSE IF u.Path = <<"*">> THEN <<"*">>
   ELSE escapePath(u.Path)

(***************************************************************************)
(* package path/filepath: Clean with "/" as the separator                  *)
(***************************************************************************)
RECURSIVE cleanStack(_, _, _)
\* the elements Clean keeps, walking the elements of the path in order
cleanStack(elems, rooted, out) ==
   IF elems = <<>> THEN out
   ELSE LET e == elems[1]
        IN  IF e = <<>> \/ e = <<".">> THEN cleanStack(Tail(elems), rooted, out)
            ELSE IF e = <<".", ".">>
                 THEN IF out # <<>> /\ out[Len(out)] # <<".", ".">>
                      THEN cleanStack(Tail(elems), rooted, SubSeq(out, 1, Len(out) - 1))
                      ELSE IF rooted THEN cleanStack(Tail(elems), rooted, out)
                      ELSE cleanStack(Tail(elems), rooted, Append(out, e))
                 ELSE cleanStack(Tail(elems), rooted, Append(out, e))

Clean(path) ==
   LET rooted == HasPrefix(path, <<"/">>)
       kept == Join(cleanStack(Split(path, "/"), rooted, <<>>), <<"/">>)
   IN  IF path = <<>> THEN <<".">>
       ELSE IF rooted THEN <<"/">> \o kept
       ELSE IF kept = <<>> THEN <<".">>
       ELSE kept

(***************************************************************************)
(* package net (Go standard library): ParseIP and IP.String.  An address   *)
(* is a sequence of eight 16-bit groups.                                   *)
(***************************************************************************)
\* the number of hex digits s starts with
hexRun(s) ==
   IF \A i \in 1..Len(s) : IsHex(s[i]) THEN Len(s)
   ELSE (CHOOSE i \in 1..Len(s) : ~IsHex(s[i]) /\ \A j \in 1..(i - 1) : IsHex(s[j])) - 1

RECURSIVE hexValue(_, _)
hexValue(s, acc) == IF s = <<>> THEN acc ELSE hexValue(Tail(s), acc * 16 + DigitVal(s[1]))

\* one decimal field of parseIPv4Fields: digits only, no leading zero, at most 255
ipv4FieldOk(f) ==
   /\ Len(f) \in 1..3
   /\ \A i \in 1..Len(f) : IsDigit(f[i])
   /\ (Len(f) > 1 => f[1] # "0")
   /\ (LET v == IF Len(f) = 1 THEN DigitVal(f[1])
                ELSE IF Len(f) = 2 THEN DigitVal(f[1]) * 10 + DigitVal(f[2])
                ELSE DigitVal(f[1]) * 100 + DigitVal(f[2]) * 10 + DigitVal(f[3])
       IN  v <= 255)

ipv4FieldVal(f) ==
   IF Len(f) = 1 THEN DigitVal(f[1])
   ELSE IF Len(f) = 2 THEN DigitVal(f[1]) * 10 + DigitVal(f[2])
   ELSE DigitVal(f[1]) * 100 + DigitVal(f[2]) * 10 + DigitVal(f[3])

\* parseIPv4Fields: the four bytes of a strict dotted quad
parseIPv4Fields(s) ==
   LET fs == Split(s, ".")
   IN  IF Len(fs) = 4 /\ \A i \in 1..4 : ipv4FieldOk(fs[i])
       THEN Ok([i \in 1..4 |-> ipv4FieldVal(fs[i])])
       ELSE Fail("not an IPv4 address")

RECURSIVE parseIPv6Loop(_, _, _)
\* the loop of parseIPv6: s is what is left to read, groups the groups read,
\* ellipsis the number of groups before "::" (-1 if none).  Returns the
\* groups, the rest and the ellipsis when the loop ends.
parseIPv6Loop(s, groups, ellipsis) ==
   LET bad == [ok |-> FALSE, groups |-> <<>>, rest |-> <<>>, ellipsis |-> -1]
       embedded(v4) ==
          IF (ellipsis < 0 /\ Len(groups) # 6) \/ Len(groups) > 6 \/ ~v4.ok THEN bad
          ELSE [ok |-> TRUE, rest |-> <<>>, ellipsis |-> ellipsis,
                groups |-> groups \o <<v4.val[1] * 256 + v4.val[2],
                                       v4.val[3] * 256 + v4.val[4]>>]
       group(off) ==
          IF off = 0 \/ off > 4 THEN bad
          ELSE IF off < Len(s) /\ s[off + 1] = "."
               THEN embedded(parseIPv4Fields(s))
               ELSE LET g == Append(groups, hexValue(SubSeq(s, 1, off), 0))
                        t == SubSeq(s, off + 1, Len(s))
                    IN  IF t = <<>> THEN [ok |-> TRUE, groups |-> g, rest |-> t, ellipsis |-> ellipsis]
                        ELSE IF t[1] # ":" \/ Len(t) = 1 THEN bad
                        ELSE IF t[2] = ":"
                             THEN IF ellipsis >= 0 THEN bad
                                  ELSE IF Len(t) = 2
                                       THEN [ok |-> TRUE, groups |-> g, rest |-> <<>>, ellipsis |-> Len(g)]
                                       ELSE parseIPv6Loop(SubSeq(t, 3, Len(t)), g, Len(g))
                             ELSE parseIPv6Loop(SubSeq(t, 2, Len(t)), g, ellipsis)
   IN  IF Len(groups) >= 8 THEN [ok |-> TRUE, groups |-> groups, rest |-> s, ellipsis |-> ellipsis]
       ELSE group(hexRun(s))

\* netip.parseIPv6 for an address without a zone
parseIPv6(in) ==
   LET lead == Len(in) >= 2 /\ in[1] = ":" /\ in[2] = ":"
       read(r) ==
          IF ~r.ok \/ r.rest # <<>> THEN Fail("not IPv6")
          ELSE IF Len(r.groups) < 8
               THEN IF r.ellipsis < 0 THEN Fail("not IPv6")
                    ELSE Ok(SubSeq(r.groups, 1, r.ellipsis) \o [i \in 1..(8 - Len(r.groups)) |-> 0]
                            \o SubSeq(r.groups, r.ellipsis + 1, Len(r.groups)))
               ELSE IF r.ellipsis >= 0 THEN Fail("not IPv6")
               ELSE Ok(r.groups)
   IN  IF lead /\ Len(in) = 2 THEN Ok([i \in 1..8 |-> 0])
       ELSE read(parseIPv6Loop(IF lead THEN SubSeq(in, 3, Len(in)) ELSE in, <<>>,
                               IF lead THEN 0 ELSE -1))

\* net.ParseIP: the first of ".", ":" and "%" decides how the text is read;
\* an address with a zone is refused
ParseIP(s) ==
   LET marks == {i \in 1..Len(s) : s[i] \in {".", ":", "%"}}
       m == IF marks = {} THEN "" ELSE s[CHOOSE i \in marks : \A j \in marks : i <= j]
       mapped(v4) ==
          IF v4.ok THEN Ok(<<0, 0, 0, 0, 0, 65535, v4.val[1] * 256 + v4.val[2],
                             v4.val[3] * 256 + v4.val[4]>>)
          ELSE Fail("not IPv6")
   IN  IF m = "." THEN mapped(parseIPv4Fields(s))
       ELSE IF m = ":" /\ ~Contains(s, <<"%">>) THEN parseIPv6(s)
       ELSE Fail("not IPv6")

LowerHex == <<"0", "1", "2", "3", "4", "5", "6", "7", "8", "9", "a", "b", "c", "d", "e", "f">>

RECURSIVE appendHex(_)
\* a group in lower-case hex without leading zeros
appendHex(g) == IF g < 16 THEN <<LowerHex[g + 1]>> ELSE appendHex(g \div 16) \o <<LowerHex[(g % 16) + 1]>>

\* the end (exclusive, 1-based) of the run of zero groups that starts at group i
zeroRunEnd(ip, i) ==
   IF \A j \in i..8 : ip[j] = 0 THEN 9
   ELSE CHOOSE j \in i..8 : ip[j] # 0 /\ \A k \in i..(j - 1) : ip[k] = 0

\* the first longest run of at least two zero groups: <<start, end>>, <<0, 0>> if none
zeroRun(ip) ==
   LET runs == {i \in 1..8 : zeroRunEnd(ip, i) - i >= 2}
       best == CHOOSE i \in runs :
                  \A j \in runs : \/ zeroRunEnd(ip, i) - i > zeroRunEnd(ip, j) - j
                                  \/ (zeroRunEnd(ip, i) - i = zeroRunEnd(ip, j) - j /\ i <= j)
   IN  IF runs = {} THEN <<0, 0>> ELSE <<best, zeroRunEnd(ip, best)>>

RECURSIVE string16(_, _, _)
\* the groups from i on, the zero run z written as "::"
string16(ip, i, z) ==
   IF i > 8 THEN <<>>
   ELSE IF i = z[1] THEN <<":", ":">> \o (IF z[2] > 8 THEN <<>> ELSE appendHex(ip[z[2]]) \o string16(ip, z[2] + 1, z))
   ELSE (IF i > 1 THEN <<":">> ELSE <<>>) \o appendHex(ip[i]) \o string16(ip, i + 1, z)

\* IP.String of a 16-byte address: dotted decimal when it is an IPv4-mapped one
IPString(ip) ==
   IF (\A i \in 1..5 : ip[i] = 0) /\ ip[6] = 65535
   THEN Itoa(ip[7] \div 256) \o <<".">> \o Itoa(ip[7] % 256) \o <<".">>
        \o Itoa(ip[8] \div 256) \o <<".">> \o Itoa(ip[8] % 256)
   ELSE string16(ip, 1, zeroRun(ip))

\* NormalizeIPv6 putting both brackets back as soon as one was there
NormalizeIPv6_BothBrackets(str) ==
   LET bracketed == HasPrefix(str, <<"[">>) \/ HasSuffix(str, <<"]">>)
       ip == TrimSet(str, {"[", "]"})
       parsed(pip) ==
          IF ~pip.ok THEN Fail("not IPv6")
          ELSE Ok((IF bracketed THEN <<"[">> ELSE <<>>) \o IPString(pip.val)
                  \o (IF bracketed THEN <<"]">> ELSE <<>>))
   IN  IF ip = <<>> THEN Fail("ErrEmptyValue")
       ELSE parsed(ParseIP(ip))

(***************************************************************************)
(* internal/ip: NormalizeIPv6                                              *)
(***************************************************************************)
NormalizeIPv6(str) ==
   LET hasLBracket == HasPrefix(str, <<"[">>)
       hasRBracket == HasSuffix(str, <<"]">>)
       ip == TrimSet(str, {"[", "]"})
       parsed(pip) ==
          IF ~pip.ok THEN Fail("not IPv6")
          ELSE Ok((IF hasLBracket THEN <<"[">> ELSE <<>>) \o IPString(pip.val)
                  \o (IF hasRBracket THEN <<"]">> ELSE <<>>))
   IN  IF ip = <<>> THEN Fail("ErrEmptyValue")
       ELSE parsed(ParseIP(ip))

(***************************************************************************)
(* pkg/url: the scheme registry.  iana.txt is embedded in the binary; the  *)
(* model keeps a few of its labels.                                        *)
(***************************************************************************)
DefaultScheme == <<"h", "t", "t", "p">>

IANASchemes ==
   {<<"h", "t", "t", "p">>, <<"h", "t", "t", "p", "s">>, <<"f", "t", "p">>}

IsValid(scheme) == scheme \in IANASchemes

(***************************************************************************)
(* pkg/url: NormalizeURL                                                   *)
(***************************************************************************)
rSep == "/"

sSep == <<rSep>>

RECURSIVE collapseFrom(_, _, _, _, _)
\* the loop of collapse from rune i on, with the runes kept and the mark so far
collapseFrom(str, i, symbol, runes, marked) ==
   IF i > Len(str) THEN <<runes, marked>>
   ELSE IF str[i] = symbol THEN collapseFrom(str, i + 1, symbol, runes, TRUE)
   ELSE collapseFrom(str, i + 1, symbol,
                     (IF marked THEN Append(runes, symbol) ELSE runes) \o <<str[i]>>, FALSE)

\* collapse that keeps one symbol of a run at the end whatever trim says
collapse_KeepTrailing(str, symbol, trim) ==
   LET r == collapseFrom(str, 1, symbol, <<>>, FALSE)
   IN  IF r[2] THEN Append(r[1], symbol) ELSE r[1]

collapse(str, symbol, trim) ==
   LET r == collapseFrom(str, 1, symbol, <<>>, FALSE)
   IN  IF r[2] /\ ~trim THEN Append(r[1], symbol) ELSE r[1]

withScheme(rawIn) ==
   LET c == Cut(rawIn, ":")
       scheme == ToLower(c[1])
   IN  IF IsValid(scheme) THEN scheme \o <<":", "/", "/">> \o TrimLeft(c[2], rSep)
       ELSE DefaultScheme \o <<":", "/", "/">> \o TrimLeft(rawIn, rSep)

prepare(rawIn) == withScheme(TrimLeft(rawIn, " "))

InvalidEscapeText == <<"i", "n", "v", "a", "l", "i", "d", " ", "U", "R", "L", " ", "e", "s", "c", "a", "p", "e">>

\* strings.Contains(err.Error(), "invalid URL escape"): the text of a
\* *url.Error is  parse "<URL>": <Err>  with the URL quoted, and a quoted
\* text keeps its letters and spaces
errorMentionsInvalidEscape(u) ==
   u.err = "invalid URL escape" \/ Contains(u.ErrURL, InvalidEscapeText)

parseUrl(rawIn) ==
   LET first(u) ==
          IF ~u.ok /\ errorMentionsInvalidEscape(u)
          THEN Parse(ReplaceAll(rawIn, <<"%">>, <<"%", "2", "5">>))
          ELSE u
   IN  first(Parse(rawIn))

HostPort(host, port, isIP) == [Host |-> host, Port |-> port, IsIP |-> isIP]

\* normalizeHost marking the host as an address without normalizing it
normalizeHost_UnparsedIP(rawHost) ==
   LET ps == Split(ToLower(rawHost), ":")
       host == TrimPrefix(TrimPrefix(collapse(ps[1], ".", TRUE), <<".">>), <<"w", "w", "w", ".">>)
       port == IF Len(ps) = 2 THEN ps[2] ELSE <<>>
       v6(nip) ==
          IF ~nip.ok THEN Fail("ErrInvalidHost") ELSE Ok(HostPort(rawHost, <<>>, TRUE))
       v4(nip) ==
          IF nip.ok THEN Ok(HostPort(host, port, TRUE))
          ELSE Ok(HostPort(host, port, FALSE))
   IN  IF rawHost = <<>> THEN Ok(HostPort(<<>>, <<>>, FALSE))
       ELSE IF Len(ps) > 2 THEN v6(NormalizeIPv6(rawHost))
       ELSE v4(NormalizeIPv4(host))

\* normalizeHost returning the error of NormalizeIPv4
normalizeHost_SurfaceIPv4(rawHost) ==
   LET ps == Split(ToLower(rawHost), ":")
       host == TrimPrefix(TrimPrefix(collapse(ps[1], ".", TRUE), <<".">>), <<"w", "w", "w", ".">>)
       port == IF Len(ps) = 2 THEN ps[2] ELSE <<>>
       v6(nip) ==
          IF ~nip.ok THEN Fail("ErrInvalidHost") ELSE Ok(HostPort(nip.val, <<>>, TRUE))
       v4(nip) ==
          IF nip.ok THEN Ok(HostPort(nip.val, port, TRUE))
          ELSE Fail(nip.err)
   IN  IF rawHost = <<>> THEN Ok(HostPort(<<>>, <<>>, FALSE))
       ELSE IF Len(ps) > 2 THEN v6(NormalizeIPv6(rawHost))
       ELSE v4(NormalizeIPv4(host))

\* normalizeHost leaving the port in Host
normalizeHost_KeepPort(rawHost) ==
   LET ps == Split(ToLower(rawHost), ":")
       host == TrimPrefix(TrimPrefix(collapse(ps[1], ".", TRUE), <<".">>), <<"w", "w", "w", ".">>)
       port == IF Len(ps) = 2 THEN ps[2] ELSE <<>>
       tail == IF port # <<>> THEN <<":">> \o port ELSE <<>>
       v6(nip) ==
          IF ~nip.ok THEN Fail("ErrInvalidHost") ELSE Ok(HostPort(nip.val, <<>>, TRUE))
       v4(nip) ==
          IF nip.ok THEN Ok(HostPort(nip.val \o tail, port, TRUE))
          ELSE Ok(HostPort(host \o tail, port, FALSE))
   IN  IF rawHost = <<>> THEN Ok(HostPort(<<>>, <<>>, FALSE))
       ELSE IF Len(ps) > 2 THEN v6(NormalizeIPv6(rawHost))
       ELSE v4(NormalizeIPv4(host))

normalizeHost(rawHost) ==
   LET ps == Split(ToLower(rawHost), ":")
       host == TrimPrefix(TrimPrefix(collapse(ps[1], ".", TRUE), <<".">>), <<"w", "w", "w", ".">>)
       port == IF Len(ps) = 2 THEN ps[2] ELSE <<>>
       v6(nip) ==
          IF ~nip.ok THEN Fail("ErrInvalidHost") ELSE Ok(HostPort(nip.val, <<>>, TRUE))
       v4(nip) ==
          IF nip.ok THEN Ok(HostPort(nip.val, port, TRUE))
          ELSE Ok(HostPort(host, port, FALSE))
   IN  IF rawHost = <<>> THEN Ok(HostPort(<<>>, <<>>, FALSE))
       ELSE IF Len(ps) > 2 THEN v6(NormalizeIPv6(rawHost))
       ELSE v4(NormalizeIPv4(host))

RECURSIVE unescapeParts(_, _)
\* the loop of normalizePath over the parts from part i on
unescapeParts(ps, i) ==
   LET rest(un, more) ==
          IF ~more.ok THEN more ELSE Ok(<<ToLower(un.val)>> \o more.val)
       part(un) ==
          IF ~un.ok THEN Fail("ErrInvalidPath") ELSE rest(un, unescapeParts(ps, i + 1))
   IN  IF i > Len(ps) THEN Ok(<<>>)
       ELSE part(PathUnescape(ps[i]))

\* normalizePath without filepath.Clean
normalizePath_NoClean(rawPath) ==
   LET p1 == TrimPrefix(rawPath, sSep)
       p2 == ReplaceAll(p1, <<"\\">>, sSep)
       p3 == collapse(p2, rSep, TRUE)
       joined(ps) ==
          IF ~ps.ok THEN ps
          ELSE IF Join(ps.val, sSep) = <<"*">> THEN Ok(<<>>)
          ELSE Ok(Join(ps.val, sSep))
   IN  IF rawPath = <<>> THEN Ok(<<>>)
       ELSE joined(unescapeParts(Split(p3, rSep), 1))

normalizePath(rawPath) ==
   LET p1 == TrimPrefix(Clean(rawPath), sSep)
       p2 == ReplaceAll(p1, <<"\\">>, sSep)
       p3 == collapse(p2, rSep, TRUE)
       joined(ps) ==
          IF ~ps.ok THEN ps
          ELSE IF Join(ps.val, sSep) = <<"*">> THEN Ok(<<>>)
          ELSE Ok(Join(ps.val, sSep))
   IN  IF rawPath = <<>> THEN Ok(<<>>)
       ELSE joined(unescapeParts(Split(p3, rSep), 1))

\* the query as normalizeQuery hands it to url.QueryUnescape: "+" replaced
\* by "%2B", then "%00" replaced by nothing
queryReplaced(rawQuery) ==
   ReplaceAll(ReplaceAll(rawQuery, <<"+">>, <<"%", "2", "B">>), <<"%", "0", "0">>, <<>>)

\* normalizeQuery without the final strings.ToLower
normalizeQuery_NoLower(rawQuery) ==
   LET q1 == ReplaceAll(rawQuery, <<"+">>, <<"%", "2", "B">>)
       q2 == ReplaceAll(q1, <<"%", "0", "0">>, <<>>)
       q3(uq) == IF uq.ok /\ uq.val # <<>> THEN uq.val ELSE q2
   IN  IF rawQuery = <<>> THEN Ok(<<>>)
       ELSE Ok(collapse(q3(QueryUnescape(q2)), rSep, FALSE))

normalizeQuery(rawQuery) ==
   LET q2 == queryReplaced(rawQuery)
       q3(uq) == IF uq.ok /\ uq.val # <<>> THEN uq.val ELSE q2
   IN  IF rawQuery = <<>> THEN Ok(<<>>)
       ELSE Ok(ToLower(collapse(q3(QueryUnescape(q2)), rSep, FALSE)))

\* buildResult writing the fragment back after the query
buildResult_WithFragment(prepared, u, host, path, query) ==
   LET b1 == host \o (IF host # <<>> /\ path # <<>> /\ ~HasPrefix(path, sSep) THEN sSep ELSE <<>>)
             \o path
       needSuffixSlash ==
          /\ u.RawQuery # <<>> \/ HasSuffix(prepared, <<"?">>)
          /\ HasSuffix(u.Path, sSep) \/ HasSuffix(u.Path, <<".">>)
       b2 == b1 \o (IF needSuffixSlash /\ ~HasSuffix(path, sSep) THEN sSep ELSE <<>>)
   IN  b2 \o (IF query # <<>> THEN <<"?">> \o query
              ELSE IF u.ForceQuery THEN <<"?">> ELSE <<>>)
          \o (IF u.Fragment # <<>> THEN <<"#">> \o u.Fragment ELSE <<>>)

\* the strings.Builder part of NormalizeURL: host, path, the suffix slash and
\* the query, given the prepared input, the parsed URL and the components
buildResult(prepared, u, host, path, query) ==
   LET b1 == host \o (IF host # <<>> /\ path # <<>> /\ ~HasPrefix(path, sSep) THEN sSep ELSE <<>>)
             \o path
       needSuffixSlash ==
          /\ u.RawQuery # <<>> \/ HasSuffix(prepared, <<"?">>)
          /\ HasSuffix(u.Path, sSep) \/ HasSuffix(u.Path, <<".">>)
       b2 == b1 \o (IF needSuffixSlash /\ ~HasSuffix(path, sSep) THEN sSep ELSE <<>>)
   IN  b2 \o (IF query # <<>> THEN <<"?">> \o query
              ELSE IF u.ForceQuery THEN <<"?">> ELSE <<>>)

\* postNormalization cutting only the '?' of a trailing "/?"
postNormalization_KeepSlash(built, u, query) ==
   LET r1 == collapse(built, rSep, FALSE)
       r2 == IF HasSuffix(r1, <<"/", "?">>) /\ Len(query) < 2
                /\ (u.Fragment # <<>> \/ u.Scheme # <<>>)
             THEN SubSeq(r1, 1, Len(r1) - 1)
             ELSE r1
   IN  TrimSuffix(r2, <<"/", ".">>)

\* postNormalization cutting a trailing "/?" only for a non-empty fragment
postNormalization_FragmentOnly(built, u, query) ==
   LET r1 == collapse(built, rSep, FALSE)
       r2 == IF HasSuffix(r1, <<"/", "?">>) /\ Len(query) < 2
                /\ u.Fragment # <<>>
             THEN SubSeq(r1, 1, Len(r1) - 2)
             ELSE r1
   IN  TrimSuffix(r2, <<"/", ".">>)

\* postNormalization without the collapse of the whole result
postNormalization_NoCollapse(built, u, query) ==
   LET r1 == built
       r2 == IF HasSuffix(r1, <<"/", "?">>) /\ Len(query) < 2
                /\ (u.Fragment # <<>> \/ u.Scheme # <<>>)
             THEN SubSeq(r1, 1, Len(r1) - 2)
             ELSE r1
   IN  TrimSuffix(r2, <<"/", ".">>)

\* the post-normalization of NormalizeURL
postNormalization(built, u, query) ==
   LET r1 == collapse(built, rSep, FALSE)
       r2 == IF HasSuffix(r1, <<"/", "?">>) /\ Len(query) < 2
                /\ (u.Fragment # <<>> \/ u.Scheme # <<>>)
             THEN SubSeq(r1, 1, Len(r1) - 2)
             ELSE r1
   IN  TrimSuffix(r2, <<"/", ".">>)

\* assemble giving the scheme back to the result
assemble_WithScheme(prepared, u, host, path, query) ==
   u.Scheme \o <<":", "/", "/">>
      \o postNormalization(buildResult(prepared, u, host, path, query), u, query)

assemble(prepared, u, host, path, query) ==
   postNormalization(buildResult(prepared, u, host, path, query), u, query)

NormalizeURL(rawIn) ==
   LET prepared == prepare(rawIn)
       queried(u, hp, path, query) ==
          IF ~query.ok THEN Fail(query.err)
          ELSE Ok(assemble(prepared, u, hp.val.Host, path.val, query.val))
       pathed(u, hp, path) ==
          IF ~path.ok THEN Fail(path.err)
          ELSE queried(u, hp, path, normalizeQuery(u.RawQuery))
       hosted(u, hp) ==
          IF ~hp.ok THEN Fail(hp.err)
          ELSE pathed(u, hp, normalizePath(EscapedPath(u)))
       parsed(u) ==
          IF ~u.ok THEN Fail(u.err)
          ELSE hosted(u, normalizeHost(u.Host))
   IN  parsed(parseUrl(prepared))

(***************************************************************************)
(* NormalizeIPv4 applied to inputs assembled from dot-separated segments.  *)
(***************************************************************************)
MaxSegs == 5

\* prefixes of the package's test vectors (internal/ip tests), each ending in "."
IPv4Prefixes ==
   {
     <<>>, <<"0", "1", "1", "2", ".", "0", "1", "7", "5", ".", "0", "1", "1", "7", ".">>,
     <<"0", "x", "a", ".", "0", "x", "4", "0", ".", "0", "x", "3", "0", ".">>, <<"3", "0", ".", "3", "1", ".">>,
     <<"1", "0", ".", "1", "6", ".", "5", "6", ".">>
   }

HeadSegs ==
   {
     <<"3", "0">>, <<"0", "x", "1", "f">>, <<"2", "5", "6">>, <<"0", "8">>
   }

\* last segments: the test vectors' and the values around each width limit
LastSegs ==
   {
     <<>>, <<" ">>, <<"0">>, <<"1", "2">>,
     <<"2", "5", "5">>, <<"2", "5", "6">>, <<"0", "1", "5", "0">>, <<"0", "x", "b">>,
     <<"0", "x", "f", "f">>, <<"0", "x", "1", "0", "0">>, <<"0", "8">>, <<"0", "x">>,
     <<"1", "a">>, <<"0", "X", "1", "F">>, <<" ", "3", "3">>, <<"3", "3", " ">>,
     <<"8", "2", "2", "5">>, <<"6", "5", "0", "2", "5">>, <<"6", "5", "0", "2", "6">>, <<"6", "5", "5", "3", "5">>,
     <<"6", "5", "5", "3", "6">>, <<"2", "0", "3", "9", "8", "4", "1">>, <<"1", "6", "5", "8", "1", "3", "7", "5">>, <<"1", "6", "5", "8", "1", "3", "7", "6">>,
     <<"1", "6", "7", "7", "7", "2", "1", "5">>, <<"1", "6", "7", "7", "7", "2", "1", "6">>, <<"1", "7", "1", "9", "7", "8", "7", "6", "3">>, <<"0", "x", "a", "4", "0", "3", "0", "0", "b">>,
     <<"4", "2", "2", "8", "2", "5", "0", "6", "2", "5">>, <<"4", "2", "2", "8", "2", "5", "0", "6", "2", "6">>, <<"4", "2", "9", "4", "9", "6", "7", "2", "9", "5">>, <<"4", "2", "9", "4", "9", "6", "7", "2", "9", "6">>,
     <<"0", "x", "f", "f", "f", "f", "f", "f", "f", "f">>, <<"0", "3", "7", "7", "7", "7", "7", "7", "7", "7", "7", "7">>
   }

InitIPv4 ==
   /\ pc = "segs"
   /\ raw \in IPv4Prefixes
   /\ added = 0
   /\ parts = NoParts
   /\ res = None
   /\ res2 = None
   /\ alt = <<>>
   /\ DriverIdle

\* one more segment before the last, while fewer than MaxSegs - 1 are there
AddHead(seg) ==
   /\ pc = "segs"
   /\ CountByte(raw, ".") < MaxSegs - 1
   /\ raw' = raw \o seg \o <<".">>
   /\ UNCHANGED <<pc, added, parts, res, res2, alt>>
   /\ UNCHANGED driverVars

AddLast(seg) ==
   /\ pc = "segs"
   /\ raw' = raw \o seg
   /\ pc' = "ready"
   /\ UNCHANGED <<added, parts, res, res2, alt>>
   /\ UNCHANGED driverVars

CallNormalizeIPv4 ==
   /\ pc = "ready"
   /\ res' = NormalizeIPv4(raw)
   /\ pc' = "done"
   /\ UNCHANGED <<raw, added, parts, res2, alt>>
   /\ UNCHANGED driverVars

NextIPv4 ==
   \/ \E seg \in HeadSegs : AddHead(seg)
   \/ \E seg \in LastSegs : AddLast(seg)
   \/ CallNormalizeIPv4

SpecIPv4 == InitIPv4 /\ [][NextIPv4]_vars

(***************************************************************************)
(* NormalizeURL applied to an input, and once more to its own result.  The *)
(* input is one of the seeds followed by at most MaxAppend tokens.         *)
(***************************************************************************)
MaxAppend == 3

\* the URLs of the README and of the documentation, and short prefixes
Seeds ==
   {
     <<>>,
     <<"f", "t", "p">>,
     <<"h", "t", "t", "p", "s", ":", "/", "/">>,
     <<"a", ".", "c", "o", "m", "/">>,
     <<"a", ".", "c", "o", "m", "/", "b", "/">>,
     <<"a", ".", "c", "o", "m", "/", "?">>,
     <<"w", "w", "w", ".">>,
     <<" ", " ", "H", "T", "T", "P", ":", "/">>,
     <<"h", "t", "t", "p", "s", ":", "/", "/", "e", "x", "a", "m", "p", "l", "e", ".", "c", "o", "m">>,
     <<"h", "t", "t", "p", "s", ":", "/", "/", "e", "x", "a", "m", "p", "l", "e", ".", "c", "o", "m", ":", "4", "4", "3", "/", "p", "a", "t", "h", "?", "q", "=", "h", "e", "l", "l", "o", "%", "2", "0", "w", "o", "r", "l", "d">>,
     <<"h", "t", "t", "p", "s", ":", "/", "/", "W", "W", "W", ".", "E", "x", "a", "m", "p", "l", "e", ".", "c", "o", "m", "/", "/", "A", "/", ".", "/", "B", "/", ".", ".", "/", "C", "/">>
   }

Tokens ==
   {
     <<"/">>, <<".">>, <<"?">>, <<"#">>, <<":">>, <<"%">>, <<"0">>,
     <<"2">>, <<"3">>, <<"q">>, <<"Q">>, <<"w", "w", "w", ".">>, <<"%", "2", "5">>, <<"%", "2", "F">>
   }

Init ==
   /\ pc = "input"
   /\ raw \in Seeds
   /\ added = 0
   /\ parts = NoParts
   /\ res = None
   /\ res2 = None
   /\ alt = <<>>
   /\ DriverIdle

Extend(tok) ==
   /\ pc = "input"
   /\ added < MaxAppend
   /\ raw' = raw \o tok
   /\ added' = added + 1
   /\ UNCHANGED <<pc, parts, res, res2, alt>>
   /\ UNCHANGED driverVars

\* res, err := NormalizeURL(raw)
Normalize ==
   /\ pc = "input"
   /\ res' = NormalizeURL(raw)
   /\ pc' = "done"
   /\ UNCHANGED <<raw, added, parts, res2, alt>>
   /\ UNCHANGED driverVars

\* res2, err := NormalizeURL(res), for a successful res
Renormalize ==
   /\ pc = "done"
   /\ res.ok
   /\ res2' = NormalizeURL(res.val)
   /\ pc' = "redone"
   /\ UNCHANGED <<raw, added, parts, res, alt>>
   /\ UNCHANGED driverVars

Next ==
   \/ \E tok \in Tokens : Extend(tok)
   \/ Normalize
   \/ Renormalize

Spec == Init /\ [][Next]_vars

(***************************************************************************)
(* Reference reading of an IPv4 segment, used to state the claims: the     *)
(* value of a numeral as little-endian base-256 digits of any length.      *)
(***************************************************************************)
RefBase(seg) ==
   IF HasPrefix(seg, <<"0", "x">>) THEN 16
   ELSE IF Len(seg) > 1 /\ seg[1] = "0" THEN 8
   ELSE 10

RefDigits(seg) ==
   IF RefBase(seg) = 16 THEN SubSeq(seg, 3, Len(seg))
   ELSE IF RefBase(seg) = 8 THEN SubSeq(seg, 2, Len(seg))
   ELSE seg

RefWellFormed(seg) ==
   /\ RefDigits(seg) # <<>>
   /\ \A i \in 1..Len(RefDigits(seg)) :
         DigitVal(RefDigits(seg)[i]) >= 0 /\ DigitVal(RefDigits(seg)[i]) < RefBase(seg)

RECURSIVE RefMulAdd(_, _, _)
\* bs * m + carry, bs little-endian base 256
RefMulAdd(bs, m, carry) ==
   IF bs = <<>> THEN (IF carry = 0 THEN <<>> ELSE <<carry % 256>> \o RefMulAdd(<<>>, m, carry \div 256))
   ELSE LET t == bs[1] * m + carry
        IN  <<t % 256>> \o RefMulAdd(Tail(bs), m, t \div 256)

RECURSIVE RefHorner(_, _, _)
RefHorner(ds, base, acc) ==
   IF ds = <<>> THEN acc
   ELSE RefHorner(Tail(ds), base, RefMulAdd(acc, base, DigitVal(ds[1])))

\* the value of a well-formed segment, little-endian, no leading zero byte
RefValue(seg) == RefHorner(RefDigits(seg), RefBase(seg), <<>>)

\* the number of bytes the value needs
RefWidth(seg) == Len(RefValue(seg))

\* byte j (1 = most significant) of the k-byte big-endian form of the value
RefByte(seg, k, j) ==
   LET v == RefValue(seg) IN IF k - j + 1 <= Len(v) THEN v[k - j + 1] ELSE 0

RefSegs == Split(TrimSpace(raw), ".")

\* byte i of the address the segments denote: a byte per segment before the
\* last, then the last segment's big-endian bytes
RefAddrByte(i) ==
   LET N == Len(RefSegs)
   IN  IF i < N THEN RefByte(RefSegs[i], 1, 1) ELSE RefByte(RefSegs[N], 5 - N, i - N + 1)

(***************************************************************************)
(* Claims about NormalizeIPv4 (checked under SpecIPv4)                     *)
(***************************************************************************)
\* C8: every accepted input of N segments (1 <= N <= 4) gives the dotted
\* decimal form of the 32-bit value whose top N-1 bytes are the first N-1
\* segments and whose low 5-N bytes are the big-endian bytes of the last
\* segment, each segment read in base 16, 8 or 10 by its prefix.
C8_Reassembly ==
   /\ (pc = "done" /\ res.ok) =>
         /\ Len(RefSegs) \in 1..4
         /\ \A i \in 1..Len(RefSegs) : RefWellFormed(RefSegs[i])
         /\ \A i \in 1..(Len(RefSegs) - 1) : RefWidth(RefSegs[i]) <= 1
         /\ RefWidth(RefSegs[Len(RefSegs)]) <= 5 - Len(RefSegs)
         /\ Split(res.val, ".") = [i \in 1..4 |-> Itoa(RefAddrByte(i))]
   /\ (pc = "done"
       /\ raw \in {<<"1", "7", "1", "9", "7", "8", "7", "6", "3">>,
                   <<"0", "x", "a", "4", "0", "3", "0", "0", "b">>,
                   <<"0", "x", "a", ".", "0", "x", "4", "0", ".", "0", "x", "3", "0", ".", "0", "x", "b">>})
      => res = Ok(<<"1", "0", ".", "6", "4", ".", "4", "8", ".", "1", "1">>)
   /\ (pc = "done"
       /\ raw \in {<<"3", "0", ".", "3", "1", ".", "8", "2", "2", "5">>,
                   <<"3", "0", ".", "2", "0", "3", "9", "8", "4", "1">>})
      => res = Ok(<<"3", "0", ".", "3", "1", ".", "3", "2", ".", "3", "3">>)

\* C8 witness: a three-segment input whose last segment spans two bytes was
\* accepted and expanded.
C8_Witness ==
   /\ pc = "done"
   /\ raw = <<"3", "0", ".", "3", "1", ".", "8", "2", "2", "5">>
   /\ res.ok
   /\ res.val = <<"3", "0", ".", "3", "1", ".", "3", "2", ".", "3", "3">>

\* C9 (as claimed): with N segments of valid digits, the input is accepted
\* exactly when every segment before the last is at most 255 and the last
\* is at most 256^(5-N) - 1, i.e. fits in 5-N bytes.
C9_AcceptsFullWidth ==
   (/\ pc = "done"
    /\ Len(RefSegs) \in 1..4
    /\ \A i \in 1..Len(RefSegs) : RefWellFormed(RefSegs[i]))
   => (res.ok <=> /\ \A i \in 1..(Len(RefSegs) - 1) : RefWidth(RefSegs[i]) <= 1
                  /\ RefWidth(RefSegs[Len(RefSegs)]) <= 5 - Len(RefSegs))

MaxTail == 2

\* hostnames without ':'
PortHosts == {<<"e", "x", "a", "m", "p", "l", "e", ".", "c", "o", "m">>, <<"W", "W", "W", ".", "Q", ".", "c", "o", "m">>, <<"f", "t", "p">>, <<"0", "x", "2", ".", "3">>}

\* decimal ports
PortPorts == {<<"4", "4", "3">>, <<"8", "0">>}

\* the empty tail of a host-only URL, and "/path?query" tails
TailSeeds == {<<>>, <<"/">>, <<"/", "p", "a", "t", "h", "?", "q", "=", "h", "e", "l", "l", "o", "%", "2", "0", "w", "o", "r", "l", "d">>}

TailTokens == {<<"/">>, <<".">>, <<"?">>, <<"#">>, <<":">>, <<"%">>, <<"2">>, <<"3">>, <<"Q">>, <<"%", "2", "F">>}

\* s://h:p tail
WithPort(p) == p.s \o <<":", "/", "/">> \o p.h \o <<":">> \o p.p \o p.tail

\* s://h tail
WithScheme(p) == p.s \o <<":", "/", "/">> \o p.h \o p.tail

\* h tail
Bare(p) == p.h \o p.tail

InitPort ==
   /\ pc = "input"
   /\ parts \in [s : IANASchemes, h : PortHosts, p : PortPorts, tail : TailSeeds]
   /\ raw = WithPort(parts)
   /\ added = 0
   /\ res = None
   /\ res2 = None
   /\ alt = <<>>
   /\ DriverIdle

\* a tail that begins with "/" grows by one token
ExtendTail(tok) ==
   /\ pc = "input"
   /\ added < MaxTail
   /\ parts.tail # <<>>
   /\ parts' = [parts EXCEPT !.tail = parts.tail \o tok]
   /\ raw' = WithPort(parts')
   /\ added' = added + 1
   /\ UNCHANGED <<pc, res, res2, alt>>
   /\ UNCHANGED driverVars

\* NormalizeURL of the three writings
NormalizeWritings ==
   /\ pc = "input"
   /\ alt' = <<NormalizeURL(WithPort(parts)), NormalizeURL(WithScheme(parts)),
               NormalizeURL(Bare(parts))>>
   /\ res' = alt'[1]
   /\ pc' = "done"
   /\ UNCHANGED <<raw, added, parts, res2>>
   /\ UNCHANGED driverVars

NextPort ==
   \/ \E tok \in TailTokens : ExtendTail(tok)
   \/ NormalizeWritings

SpecPort == InitPort /\ [][NextPort]_vars

(***************************************************************************)
(* Properties of NormalizeURL                                              *)
(***************************************************************************)
HasUpper(s) == \E i \in 1..Len(s) : IsUpper(s[i])

HasByte(s, c) == \E i \in 1..Len(s) : s[i] = c

\* the input begins with a registered scheme label and "://"
HasRecognizedScheme(s) ==
   \E sch \in IANASchemes : HasPrefix(ToLower(s), sch \o <<":", "/", "/">>)

\* the input ends with a bare '?' right after a '/', without fragment
EndsWithSlashAndBareQuery(s) ==
   /\ HasSuffix(s, <<"/", "?">>)
   /\ CountByte(s, "?") = 1
   /\ ~HasByte(s, "#")

\* C1: NormalizeURL is idempotent: whenever NormalizeURL(x) succeeds with y,
\* NormalizeURL(y) succeeds as well and returns exactly y.
C1_Idempotent ==
   pc = "redone" => (res2.ok /\ res2.val = res.val)

\* C2 (as stated): a successful result of NormalizeURL contains no '#'.
C2_NoHash ==
   (pc = "done" /\ res.ok) => ~HasByte(res.val, "#")

\* C2 (amended): a successful result of NormalizeURL contains no '#' unless
\* the input holds a '%': the fragment is discarded, and a '#' of the result
\* can only come from decoding a percent-escape of the path or the query.
C2_HashOnlyFromEscape ==
   (pc = "done" /\ res.ok /\ ~HasByte(raw, "%")) => ~HasByte(res.val, "#")

\* an input with a fragment and without '%' was normalised to a non-empty result
C2_Witness ==
   /\ pc = "done" /\ res.ok /\ res.val # <<>>
   /\ HasByte(raw, "#") /\ ~HasByte(raw, "%")
   /\ \E i \in 1..Len(raw) - 1 : raw[i] = "#" /\ raw[i + 1] # "#"

\* C3: a successful result of NormalizeURL never begins with "http://" nor
\* with any registered scheme label followed by "://".
C3_NoSchemePrefix ==
   (pc = "done" /\ res.ok) =>
      /\ ~HasPrefix(res.val, <<"h", "t", "t", "p", ":", "/", "/">>)
      /\ \A sch \in IANASchemes : ~HasPrefix(res.val, sch \o <<":", "/", "/">>)

\* an input written with a scheme was normalised to a non-empty result
C3_Witness ==
   /\ pc = "done" /\ res.ok /\ res.val # <<>>
   /\ HasRecognizedScheme(raw)

\* C4: in a successful result of NormalizeURL the host and the path are
\* lowercase and the whole result holds no uppercase ASCII letter (the query,
\* escaped sequences it retains included, is lowercased as a whole).
C4_NoUppercase ==
   (pc = "done" /\ res.ok) => ~HasUpper(res.val)

\* an input with uppercase letters in host, path and query was normalised
C4_Witness ==
   /\ pc = "done" /\ res.ok
   /\ raw = <<"h", "t", "t", "p", "s", ":", "/", "/", "W", "W", "W", ".", "E", "x", "a", "m", "p", "l", "e", ".", "c", "o", "m", "/", "/", "A", "/", ".", "/", "B", "/", ".", ".", "/", "C", "/">> \o <<"?", "Q">>
   /\ res.val = <<"e", "x", "a", "m", "p", "l", "e", ".", "c", "o", "m", "/", "a", "/", "c", "/", "?", "q">>

\* C5 (as stated): for an input with a recognized scheme that ends with a
\* bare '?' and whose path ends with '/', the result ends with '/'.
C5_KeepsSlash ==
   (pc = "done" /\ res.ok /\ HasRecognizedScheme(raw) /\ EndsWithSlashAndBareQuery(raw))
      => HasSuffix(res.val, sSep)

\* C5 (amended): for an input with a recognized scheme that ends with a bare
\* '?' and whose path ends with '/', the result does not end with '/': the
\* post-normalization removes the trailing "/?" as a whole.
C5_DropsSlash ==
   (pc = "done" /\ res.ok /\ HasRecognizedScheme(raw) /\ EndsWithSlashAndBareQuery(raw))
      => ~HasSuffix(res.val, sSep)

\* such an input was normalised and the result kept host and path
C5_Witness ==
   /\ pc = "done" /\ res.ok /\ res.val # <<>>
   /\ HasRecognizedScheme(raw) /\ EndsWithSlashAndBareQuery(raw)
   /\ ~HasSuffix(res.val, <<"?">>)

\* C6 (as stated): NormalizeURL("https://WWW.Example.com//A/./B/../C/")
\* returns "example.com/a/c/", the trailing '/' of the path kept.
C6_KeepsTrailingSlash ==
   (pc = "done" /\ raw = <<"h", "t", "t", "p", "s", ":", "/", "/", "W", "W", "W", ".", "E", "x", "a", "m", "p", "l", "e", ".", "c", "o", "m", "/", "/", "A", "/", ".", "/", "B", "/", ".", ".", "/", "C", "/">>)
      => res = Ok(<<"e", "x", "a", "m", "p", "l", "e", ".", "c", "o", "m", "/", "a", "/", "c", "/">>)

\* C6 (amended): NormalizeURL("https://WWW.Example.com//A/./B/../C/")
\* returns "example.com/a/c": host lowercased without "www.", path cleaned
\* and lowercased, and, there being no query, no trailing '/'.
C6_DropsTrailingSlash ==
   (pc = "done" /\ raw = <<"h", "t", "t", "p", "s", ":", "/", "/", "W", "W", "W", ".", "E", "x", "a", "m", "p", "l", "e", ".", "c", "o", "m", "/", "/", "A", "/", ".", "/", "B", "/", ".", ".", "/", "C", "/">>)
      => res = Ok(<<"e", "x", "a", "m", "p", "l", "e", ".", "c", "o", "m", "/", "a", "/", "c">>)

\* the URL of C6 was normalised
C6_Witness ==
   /\ pc = "done" /\ raw = <<"h", "t", "t", "p", "s", ":", "/", "/", "W", "W", "W", ".", "E", "x", "a", "m", "p", "l", "e", ".", "c", "o", "m", "/", "/", "A", "/", ".", "/", "B", "/", ".", ".", "/", "C", "/">>
   /\ res.ok

MaxHostAppend == 3

\* addresses of the package's tests (internal/ip tests) and host names of
\* the documentation, some cut short so that the tokens complete them
HostSeeds ==
   {
     <<>>,
     <<"[">>,
     <<"2", "0", "0", "1", ":", "0", "0", "0", "0", ":", "1", "1", "A", "A", ":", "0", "0", "0", "0", ":", "0", "0", "0", "0", ":", "0", "0", "0", "0", ":", "1", "2", "3", "4", ":", "0", "0", "0", "0">>,
     <<"[", "2", "0", "0", "2", ":", "7", "F", "0", ":", "0", "1", "F", "a", ":", ":", "0", "0", "0", "1">>,
     <<"0", "0", "0", "0", ":", "0", "0", "0", "0", ":", "0", "0", "0", "0", ":", "0", "0", "0", "0", ":", "0", "0", "0", "0", ":", "0", "0", "0", "0", ":", "0", "0", "0", "0", ":", "0", "0", "0">>,
     <<"2", "0", "0", "1", ":", "d", "b", "8", ":", "3", "3", "3", "3", ":", "4", "4", "4", "4", ":", "5", "5", "5", "5", ":", "6", "6", "6", "6", ":", "7", "7", "7", "7", ":", "8", "8", "8", "8">>,
     <<"1", ":", "0", ":", "0", ":", "4", ":", "0", ":", "0", ":">>,
     <<":", ":", "f", "f", "f", "f", ":", "1", ".", "2", ".", "3">>,
     <<"W", "W", "W", ".", "E", "x", "a", "m", "p", "l", "e", ".", ".", "c", "o", "m">>,
     <<"e", "x", "a", "m", "p", "l", "e", ".", "c", "o", "m", ":", "8", "0">>,
     <<"0", "x", "7", "f", ".", "1">>
   }

HostTokens ==
   {
     <<"[">>, <<"]">>, <<":">>, <<":", ":">>, <<".">>, <<"0">>, <<"1">>, <<"4">>, <<"f">>, <<"A">>, <<"w", "w", "w", ".">>, <<"g">>
   }

InitHost ==
   /\ pc = "input"
   /\ raw \in HostSeeds
   /\ added = 0
   /\ parts = NoParts
   /\ res = None
   /\ res2 = None
   /\ alt = <<>>
   /\ DriverIdle

ExtendHost(tok) ==
   /\ pc = "input"
   /\ added < MaxHostAppend
   /\ raw' = raw \o tok
   /\ added' = added + 1
   /\ UNCHANGED <<pc, parts, res, res2, alt>>
   /\ UNCHANGED driverVars

\* nip, err := ip.NormalizeIPv6(raw)
CallNormalizeIPv6 ==
   /\ pc = "input"
   /\ res' = NormalizeIPv6(raw)
   /\ pc' = "ipv6"
   /\ UNCHANGED <<raw, added, parts, res2, alt>>
   /\ UNCHANGED driverVars

\* hp, err := normalizeHost(raw)
CallNormalizeHost ==
   /\ pc = "input"
   /\ res' = normalizeHost(raw)
   /\ pc' = "host"
   /\ UNCHANGED <<raw, added, parts, res2, alt>>
   /\ UNCHANGED driverVars

NextHost ==
   \/ \E tok \in HostTokens : ExtendHost(tok)
   \/ CallNormalizeIPv6
   \/ CallNormalizeHost

SpecHost == InitHost /\ [][NextHost]_vars

(***************************************************************************)
(* Reference forms of an address text, used to state the claims.           *)
(***************************************************************************)
RefHexDigits ==
   {"0", "1", "2", "3", "4", "5", "6", "7", "8", "9", "a", "b", "c", "d", "e", "f"}

\* a 16-bit group in lowercase hexadecimal without leading zeros
RefHexGroup(g) ==
   /\ Len(g) \in 1..4
   /\ \A i \in 1..Len(g) : g[i] \in RefHexDigits
   /\ (Len(g) > 1 => g[1] # "0")

\* n groups "0" in a row somewhere in gs
RefZeroRun(gs, n) ==
   \E i \in 1..(Len(gs) - n + 1) : \A j \in i..(i + n - 1) : gs[j] = <<"0">>

RefGroups(t) == IF t = <<>> THEN <<>> ELSE Split(t, ":")

\* the canonical compressed text of an IPv6 address: eight groups, the
\* first longest run of two or more zero groups written "::"
RefCanonicalIPv6(s) ==
   LET dc == Index(s, <<":", ":">>)
       lg == RefGroups(IF dc = 0 THEN s ELSE SubSeq(s, 1, dc - 1))
       rg == IF dc = 0 THEN <<>> ELSE RefGroups(SubSeq(s, dc + 2, Len(s)))
       hidden == 8 - Len(lg) - Len(rg)
   IN  /\ \A i \in 1..Len(lg) : RefHexGroup(lg[i])
       /\ \A i \in 1..Len(rg) : RefHexGroup(rg[i])
       /\ IF dc = 0 THEN Len(lg) = 8 /\ ~RefZeroRun(lg, 2)
          ELSE /\ hidden >= 2
               /\ ~RefZeroRun(lg, hidden)
               /\ ~RefZeroRun(rg, hidden + 1)
               /\ (lg # <<>> => lg[Len(lg)] # <<"0">>)
               /\ (rg # <<>> => rg[1] # <<"0">>)

RefOctet(p) ==
   /\ Len(p) \in 1..3
   /\ \A i \in 1..Len(p) : IsDigit(p[i])
   /\ (Len(p) = 3 =>
         100 * DigitVal(p[1]) + 10 * DigitVal(p[2]) + DigitVal(p[3]) <= 255)

\* four decimal octets, each 0..255, separated by dots
RefDottedQuad(s) ==
   LET ps == Split(s, ".")
   IN  Len(ps) = 4 /\ \A i \in 1..4 : RefOctet(ps[i])

\* s without one leading "[" and without one trailing "]"
RefUnbracketed(s) == TrimSuffix(TrimPrefix(s, <<"[">>), <<"]">>)

\* the host name as normalizeHost is to leave it: lower case, the empty
\* labels dropped, one leading "www." removed
RefCleanHost(h) ==
   LET ls == Split(ToLower(h), ".")
       kept == SelectSeq(ls, LAMBDA l : l # <<>>)
   IN  TrimPrefix(Join(kept, <<".">>), <<"w", "w", "w", ".">>)

(***************************************************************************)
(* Claims about NormalizeIPv6 and normalizeHost (checked under SpecHost)   *)
(***************************************************************************)
\* C11: a successful NormalizeIPv6 puts "[" in front exactly when the input
\* began with "[" and "]" behind exactly when the input ended with "]", and
\* between them stands the canonical text of the address written between
\* the input's brackets.
C11_BracketsReapplied ==
   (pc = "ipv6" /\ res.ok) =>
      LET l == HasPrefix(raw, <<"[">>)
          r == HasSuffix(raw, <<"]">>)
          mid == SubSeq(res.val, IF l THEN 2 ELSE 1, Len(res.val) - (IF r THEN 1 ELSE 0))
      IN  /\ HasPrefix(res.val, <<"[">>) <=> l
          /\ HasSuffix(res.val, <<"]">>) <=> r
          /\ RefCanonicalIPv6(mid) \/ RefDottedQuad(mid)
          /\ ParseIP(mid) = ParseIP(TrimSet(raw, {"[", "]"}))

\* an address with an opening bracket only, rewritten into its canonical text
C11_Witness ==
   /\ pc = "ipv6"
   /\ res.ok
   /\ HasPrefix(raw, <<"[">>)
   /\ ~HasSuffix(raw, <<"]">>)
   /\ res.val # raw
   /\ HasPrefix(res.val, <<"[">>)
   /\ ~HasSuffix(res.val, <<"]">>)

\* C12: when normalizeHost succeeds with IsIP set, Host is a dotted-decimal
\* IPv4 address (four decimal octets, each 0..255) or the canonical
\* compressed lowercase text of an IPv6 address, with or without brackets.
C12_IPHostForm ==
   (pc = "host" /\ res.ok /\ res.val.IsIP) =>
      \/ RefDottedQuad(RefUnbracketed(res.val.Host))
      \/ RefCanonicalIPv6(RefUnbracketed(res.val.Host))

\* a bracketed IPv6 host that normalizeHost rewrote
C12_Witness ==
   /\ pc = "host"
   /\ res.ok
   /\ res.val.IsIP
   /\ HasPrefix(raw, <<"[">>)
   /\ res.val.Host # raw
   /\ RefCanonicalIPv6(RefUnbracketed(res.val.Host))

\* C13: normalizeHost fails only for a host with more than one ":" that
\* NormalizeIPv6 rejects, and then with ErrInvalidHost; a host with at most
\* one ":" always succeeds, and when NormalizeIPv4 rejects it the Host is
\* the cleaned host name and IsIP is false.
C13_IPv4FailureNotSurfaced ==
   pc = "host" =>
      LET colons == CountByte(raw, ":")
          name == RefCleanHost(Cut(raw, ":")[1])
      IN  /\ ~res.ok => (colons > 1 /\ ~NormalizeIPv6(raw).ok /\ res.err = "ErrInvalidHost")
          /\ colons <= 1 => res.ok
          /\ (colons <= 1 /\ ~NormalizeIPv4(name).ok) =>
                (res.val.Host = name /\ ~res.val.IsIP)

\* a host with a port whose name NormalizeIPv4 rejects for a bad digit
C13_Witness ==
   /\ pc = "host"
   /\ CountByte(raw, ":") = 1
   /\ NormalizeIPv4(RefCleanHost(Cut(raw, ":")[1])).err = "strconv.ErrSyntax"
   /\ res.ok
   /\ ~res.val.IsIP
   /\ res.val.Host # Cut(raw, ":")[1]

(***************************************************************************)
(* collapse applied to a text of at most MaxCollapseLen characters, and    *)
(* once more to its own result.                                            *)
(***************************************************************************)
MaxCollapseLen == 5

\* the two symbols NormalizeURL collapses, and two other characters
CollapseChars == {"/", ".", "a", "b"}

CollapseSymbols == {rSep, "."}

InitCollapse ==
   /\ pc = "input"
   /\ raw = <<>>
   /\ added = 0
   /\ parts \in [symbol : CollapseSymbols, trim : BOOLEAN]
   /\ res = None
   /\ res2 = None
   /\ alt = <<>>
   /\ DriverIdle

ExtendText(c) ==
   /\ pc = "input"
   /\ added < MaxCollapseLen
   /\ raw' = Append(raw, c)
   /\ added' = added + 1
   /\ UNCHANGED <<pc, parts, res, res2, alt>>
   /\ UNCHANGED driverVars

\* res := collapse(raw, symbol, trim)
CallCollapse ==
   /\ pc = "input"
   /\ res' = collapse(raw, parts.symbol, parts.trim)
   /\ pc' = "collapsed"
   /\ UNCHANGED <<raw, added, parts, res2, alt>>
   /\ UNCHANGED driverVars

\* res2 := collapse(res, symbol, trim)
CallCollapseAgain ==
   /\ pc = "collapsed"
   /\ res2' = collapse(res, parts.symbol, parts.trim)
   /\ pc' = "recollapsed"
   /\ UNCHANGED <<raw, added, parts, res, alt>>
   /\ UNCHANGED driverVars

NextCollapse ==
   \/ \E c \in CollapseChars : ExtendText(c)
   \/ CallCollapse
   \/ CallCollapseAgain

SpecCollapse == InitCollapse /\ [][NextCollapse]_vars

\* the positions of s that stay: every other character, and of each run of
\* c its last one, unless the run ends the text and trim is set
RefKept(s, c, trim) ==
   {i \in 1..Len(s) :
       \/ s[i] # c
       \/ (i < Len(s) /\ s[i + 1] # c)
       \/ (i = Len(s) /\ ~trim)}

\* s restricted to the positions that stay, in order
RefCollapse(s, c, trim) ==
   LET kept == RefKept(s, c, trim)
   IN  [k \in 1..Cardinality(kept) |->
          s[CHOOSE i \in kept : Cardinality({j \in kept : j <= i}) = k]]

RefNoAdjacent(s, c) == \A i \in 1..(Len(s) - 1) : ~(s[i] = c /\ s[i + 1] = c)

(***************************************************************************)
(* Claim about collapse (checked under SpecCollapse)                       *)
(***************************************************************************)
\* C18: collapse(s, ch, trim) is s with every maximal run of ch replaced by
\* one ch and every other character kept in order, a run at the end being
\* removed when trim is set; the result has no two adjacent ch, does not
\* end with ch when trim is set, keeps a leading run as one ch (unless that
\* run is the whole text and trim removes it), and collapsing the result
\* again with the same ch and trim returns it unchanged.
C18_CollapseRuns ==
   (pc \in {"collapsed", "recollapsed"}) =>
      /\ res = RefCollapse(raw, parts.symbol, parts.trim)
      /\ RefNoAdjacent(res, parts.symbol)
      /\ parts.trim => ~HasSuffix(res, <<parts.symbol>>)
      /\ (HasPrefix(raw, <<parts.symbol>>)
            /\ (~parts.trim \/ \E i \in 1..Len(raw) : raw[i] # parts.symbol))
         => (HasPrefix(res, <<parts.symbol>>) /\ ~HasPrefix(res, <<parts.symbol, parts.symbol>>))
      /\ pc = "recollapsed" => res2 = res

\* a text with a leading run of two and a run at the end, collapsed with trim
\* and collapsed again
C18_Witness ==
   /\ pc = "recollapsed"
   /\ parts.trim
   /\ HasPrefix(raw, <<parts.symbol, parts.symbol>>)
   /\ HasSuffix(raw, <<parts.symbol>>)
   /\ Len(res) >= 2
   /\ res # raw

(***************************************************************************)
(* parseUrl applied to a text: one of the seeds followed by at most        *)
(* MaxParseAppend tokens.                                                  *)
(***************************************************************************)
MaxParseAppend == 3

\* texts as prepare hands them over, with a good and with a bad host
ParseSeeds ==
   {
     <<>>,
     <<"h", "t", "t", "p", ":", "/", "/">>,
     <<"h", "t", "t", "p", "s", ":", "/", "/", "e", "x", "a", "m", "p", "l", "e", ".", "c", "o", "m", ":", "4", "4", "3", "/", "p", "a", "t", "h", "?", "q", "=", "h", "e", "l", "l", "o", "%", "2", "0", "w", "o", "r", "l", "d">>,
     <<"h", "t", "t", "p", ":", "/", "/", "a", ".", "c", "o", "m", "/">>,
     <<"h", "t", "t", "p", ":", "/", "/", "a", " ", "b", "/">>,
     <<"h", "t", "t", "p", ":", "/", "/", "a", ".", "c", "o", "m", "/", "i", "n", "v", "a", "l", "i", "d", " ", "U", "R", "L", " ", "e", "s", "c", "a", "p", "e">>,
     <<"h", "t", "t", "p", ":", "/", "/", "a", " ", "b", "/", "i", "n", "v", "a", "l", "i", "d", " ", "U", "R", "L", " ", "e", "s", "c", "a", "p", "e">>
   }

ParseTokens ==
   {
     <<"/">>, <<"?">>, <<"#">>, <<":">>, <<"%">>, <<"4">>, <<"1">>, <<"z">>, <<" ">>, <<"%", "2", "5">>
   }

InitParse ==
   /\ pc = "input"
   /\ raw \in ParseSeeds
   /\ added = 0
   /\ parts = NoParts
   /\ res = None
   /\ res2 = None
   /\ alt = <<>>
   /\ DriverIdle

ExtendURL(tok) ==
   /\ pc = "input"
   /\ added < MaxParseAppend
   /\ raw' = raw \o tok
   /\ added' = added + 1
   /\ UNCHANGED <<pc, parts, res, res2, alt>>
   /\ UNCHANGED driverVars

\* u, err := parseUrl(raw)
CallParseUrl ==
   /\ pc = "input"
   /\ res' = parseUrl(raw)
   /\ pc' = "parsed"
   /\ UNCHANGED <<raw, added, parts, res2, alt>>
   /\ UNCHANGED driverVars

NextParse ==
   \/ \E tok \in ParseTokens : ExtendURL(tok)
   \/ CallParseUrl

SpecParse == InitParse /\ [][NextParse]_vars

(***************************************************************************)
(* Claim about parseUrl (checked under SpecParse)                          *)
(***************************************************************************)
\* C19: parseUrl returns the first parse when it succeeds; when it fails
\* with an invalid-percent-escape error it returns the outcome of parsing
\* the text with every "%" replaced by "%25"; any other failure is returned
\* as it is, without a second parse.
C19_RetryOnlyOnEscapeError ==
   pc = "parsed" =>
      LET checked(f) ==
             /\ f.ok => res = f
             /\ (~f.ok /\ f.err = "invalid URL escape")
                   => res = Parse(ReplaceAll(raw, <<"%">>, <<"%", "2", "5">>))
             /\ (~f.ok /\ f.err # "invalid URL escape") => res = f
      IN  checked(Parse(raw))

(***************************************************************************)
(* normalizeQuery applied to a raw query: one of the seeds followed by at  *)
(* most MaxQueryAppend tokens.  alt is the text handed to QueryUnescape.   *)
(***************************************************************************)
MaxQueryAppend == 3

QuerySeeds ==
   {
     <<>>,
     <<"q", "=", "h", "e", "l", "l", "o", "%", "2", "0", "w", "o", "r", "l", "d">>,
     <<"a", "+", "b", "=", "%", "0", "0">>,
     <<"Q", "=", "/">>
   }

QueryTokens ==
   {
     <<"%">>, <<"0">>, <<"0", "0">>, <<"2">>, <<"+">>, <<"/">>, <<"q">>, <<"A">>, <<"=">>, <<"%", "0", "0">>
   }

InitQuery ==
   /\ pc = "input"
   /\ raw \in QuerySeeds
   /\ added = 0
   /\ parts = NoParts
   /\ res = None
   /\ res2 = None
   /\ alt = <<>>
   /\ DriverIdle

ExtendQuery(tok) ==
   /\ pc = "input"
   /\ added < MaxQueryAppend
   /\ raw' = raw \o tok
   /\ added' = added + 1
   /\ UNCHANGED <<pc, parts, res, res2, alt>>
   /\ UNCHANGED driverVars

\* query, err := normalizeQuery(raw)
CallNormalizeQuery ==
   /\ pc = "input"
   /\ res' = normalizeQuery(raw)
   /\ alt' = IF raw = <<>> THEN <<>> ELSE queryReplaced(raw)
   /\ pc' = "queried"
   /\ UNCHANGED <<raw, added, parts, res2>>
   /\ UNCHANGED driverVars

NextQuery ==
   \/ \E tok \in QueryTokens : ExtendQuery(tok)
   \/ CallNormalizeQuery

SpecQuery == InitQuery /\ [][NextQuery]_vars

(***************************************************************************)
(* Claim about normalizeQuery (checked under SpecQuery)                    *)
(***************************************************************************)
\* C20: the text normalizeQuery hands to the percent-decoder contains no
\* "%00", and the normalized query of a raw query without a NUL byte
\* contains no NUL byte.
C20_NoEscapedNul ==
   pc = "queried" =>
      /\ ~Contains(alt, <<"%", "0", "0">>)
      /\ ~HasByte(raw, "<00>") => ~HasByte(res.val, "<00>")

(***************************************************************************)
(* The command-line driver: a producer goroutine scans the input line by   *)
(* line into a channel, main's loop receives, normalizes and writes.       *)
(***************************************************************************)
\* make(chan Line, 10)
ChanCap == 10

Line(url, p) == [Url |-> url, Pos |-> p]

\* (l Line) Empty()
Empty(l) == l.Url = <<>>

\* a line longer than bufio.Scanner's token limit, its bytes not spelled
\* out: Scan returns false on it
Oversize == <<"more than bufio.MaxScanTokenSize bytes">>

\* what the driver logs
ParseErrorLog(l) == [kind |-> "parse error", pos |-> l.Pos, url |-> l.Url]

WriteErrorLog == [kind |-> "write error"]

SummaryLog(s, f) == [kind |-> "summary", succeeded |-> s, failed |-> f]

\* the texts of the input's lines: a blank line, two URLs, and a URL that
\* url.Parse rejects
LineTexts ==
   {
     <<>>,
     <<"a", ".", "c", "o", "m">>,
     <<"H", "T", "T", "P", ":", "/", "/", "W", "W", "W", ".", "B", ".", "c", "o", "m", "/", "x", "/">>,
     <<"h", "t", "t", "p", ":", "/", "/", "a", " ", "b", "/">>
   }

\* url.NormalizeURL(l) for each of these texts, computed once
LineResult == [l \in LineTexts |-> NormalizeURL(l)]

\* one pass of main's loop body that writes an empty line for a blank one
loopBody_WriteBlank(line, strict, writeOk) ==
   LET normalized(u) ==
          IF ~u.ok
          THEN [write |-> <<>>, succeeded |-> 0, failed |-> 1,
                log |-> <<ParseErrorLog(line)>>, stop |-> strict]
          ELSE IF ~writeOk
          THEN [write |-> <<>>, succeeded |-> 0, failed |-> 0,
                log |-> <<WriteErrorLog>>, stop |-> TRUE]
          ELSE [write |-> <<u.val>>, succeeded |-> 1, failed |-> 0,
                log |-> <<>>, stop |-> FALSE]
   IN  IF Empty(line)
       THEN [write |-> <<line.Url>>, succeeded |-> 0, failed |-> 0, log |-> <<>>, stop |-> FALSE]
       ELSE normalized(LineResult[line.Url])

\* one pass of main's loop body that goes on after a failure in strict mode
loopBody_NeverAborts(line, strict, writeOk) ==
   LET normalized(u) ==
          IF ~u.ok
          THEN [write |-> <<>>, succeeded |-> 0, failed |-> 1,
                log |-> <<ParseErrorLog(line)>>, stop |-> FALSE]
          ELSE IF ~writeOk
          THEN [write |-> <<>>, succeeded |-> 0, failed |-> 0,
                log |-> <<WriteErrorLog>>, stop |-> TRUE]
          ELSE [write |-> <<u.val>>, succeeded |-> 1, failed |-> 0,
                log |-> <<>>, stop |-> FALSE]
   IN  IF Empty(line)
       THEN [write |-> <<>>, succeeded |-> 0, failed |-> 0, log |-> <<>>, stop |-> FALSE]
       ELSE normalized(LineResult[line.Url])

\* one pass of main's loop body for a received line: the lines it writes,
\* what it adds to the counters and to the log, and whether it cancels and
\* leaves the loop.  writeOk tells whether out.WriteString succeeds.
loopBody(line, strict, writeOk) ==
   LET normalized(u) ==
          IF ~u.ok
          THEN [write |-> <<>>, succeeded |-> 0, failed |-> 1,
                log |-> <<ParseErrorLog(line)>>, stop |-> strict]
          ELSE IF ~writeOk
          THEN [write |-> <<>>, succeeded |-> 0, failed |-> 0,
                log |-> <<WriteErrorLog>>, stop |-> TRUE]
          ELSE [write |-> <<u.val>>, succeeded |-> 1, failed |-> 0,
                log |-> <<>>, stop |-> FALSE]
   IN  IF Empty(line)
       THEN [write |-> <<>>, succeeded |-> 0, failed |-> 0, log |-> <<>>, stop |-> FALSE]
       ELSE normalized(LineResult[line.Url])

\* the input is at most MaxHead lines of any kind followed by at most
\* MaxFill lines "a.com"
MaxHead == 2

MaxFill == 11

FillLine == <<"a", ".", "c", "o", "m">>

DriverInputs ==
   {h \o [i \in 1..j |-> FillLine] :
      h \in UNION {[1..n -> LineTexts \cup {Oversize}] : n \in 0..MaxHead},
      j \in 0..MaxFill}

InitDriver ==
   /\ pc = "driver"
   /\ raw = <<>>
   /\ added = 0
   /\ parts = NoParts
   /\ res = None
   /\ res2 = None
   /\ alt = <<>>
   /\ strictMode \in BOOLEAN
   /\ input \in DriverInputs
   /\ pos = 0
   /\ producer = "select"
   /\ ch = <<>>
   /\ cancelled = FALSE
   /\ main = "range"
   /\ taken = 0
   /\ outFile = <<>>
   /\ succeeded = 0
   /\ failed = 0
   /\ logs = <<>>

\* the producer not looking at the context: it returns only when Scan
\* returns false
ProducerScan_IgnoresCancel ==
   /\ producer = "select"
   /\ IF pos = Len(input) \/ input[pos + 1] = Oversize
      THEN producer' = "done" /\ pos' = pos
      ELSE producer' = "send" /\ pos' = pos + 1
   /\ UNCHANGED <<pc, raw, added, parts, res, res2, alt>>
   /\ UNCHANGED <<strictMode, input, ch, cancelled, main, taken, outFile, succeeded, failed, logs>>

\* the producer at its select: it returns (and closes the channel) when the
\* context is cancelled or when Scan returns false, at the end of the input
\* or at a line that is too long; otherwise it has the next line to send
ProducerScan ==
   /\ producer = "select"
   /\ IF cancelled \/ pos = Len(input) \/ input[pos + 1] = Oversize
      THEN producer' = "done" /\ pos' = pos
      ELSE producer' = "send" /\ pos' = pos + 1
   /\ UNCHANGED <<pc, raw, added, parts, res, res2, alt>>
   /\ UNCHANGED <<strictMode, input, ch, cancelled, main, taken, outFile, succeeded, failed, logs>>

\* ch <- Line{Url: u, Pos: pos}, which waits while the channel is full
ProducerSend ==
   /\ producer = "send"
   /\ Len(ch) < ChanCap
   /\ ch' = Append(ch, Line(input[pos], pos))
   /\ producer' = "select"
   /\ UNCHANGED <<pc, raw, added, parts, res, res2, alt>>
   /\ UNCHANGED <<strictMode, input, pos, cancelled, main, taken, outFile, succeeded, failed, logs>>

\* main receives a line and runs the loop body on it
Iterate(writeOk) ==
   /\ main = "range"
   /\ ch # <<>>
   /\ LET step(b) ==
             /\ outFile' = outFile \o b.write
             /\ succeeded' = succeeded + b.succeeded
             /\ failed' = failed + b.failed
             /\ logs' = logs \o b.log
             /\ cancelled' = (cancelled \/ b.stop)
             /\ main' = IF b.stop THEN "summary" ELSE "range"
      IN  step(loopBody(Head(ch), strictMode, writeOk))
   /\ ch' = Tail(ch)
   /\ taken' = taken + 1
   /\ UNCHANGED <<pc, raw, added, parts, res, res2, alt>>
   /\ UNCHANGED <<strictMode, input, pos, producer>>

\* the range loop ends when the channel is closed and empty
LoopEnd ==
   /\ main = "range"
   /\ ch = <<>>
   /\ producer = "done"
   /\ main' = "summary"
   /\ UNCHANGED <<pc, raw, added, parts, res, res2, alt>>
   /\ UNCHANGED <<strictMode, input, pos, producer, ch, cancelled, taken, outFile, succeeded, failed, logs>>

\* log.Printf("normalized: %d; failed: %d", succeeded, failed); main returns
Summary ==
   /\ main = "summary"
   /\ logs' = Append(logs, SummaryLog(succeeded, failed))
   /\ main' = "done"
   /\ UNCHANGED <<pc, raw, added, parts, res, res2, alt>>
   /\ UNCHANGED <<strictMode, input, pos, producer, ch, cancelled, taken, outFile, succeeded, failed>>

ProducerStep == ProducerScan \/ ProducerSend

NextDriver ==
   \/ ProducerScan
   \/ ProducerSend
   \/ \E writeOk \in BOOLEAN : Iterate(writeOk)
   \/ LoopEnd
   \/ Summary

SpecDriver == InitDriver /\ [][NextDriver]_vars

\* main's goroutine at any of its steps
MainStep == (\E writeOk \in BOOLEAN : Iterate(writeOk)) \/ LoopEnd \/ Summary

\* the Go scheduler runs a goroutine that stays runnable: the producer takes
\* a step it can take, and so does main
SpecDriverFair == SpecDriver /\ WF_vars(ProducerStep) /\ WF_vars(MainStep)

(***************************************************************************)
(* Reference values used to state the claims about the driver.             *)
(***************************************************************************)
RefSucceeds(k) == input[k] # <<>> /\ LineResult[input[k]].ok

RefFails(k) == input[k] # <<>> /\ ~LineResult[input[k]].ok

RECURSIVE RefWritten(_)
\* the results of the non-blank lines among the first k whose normalization
\* succeeds, in input order
RefWritten(k) ==
   IF k = 0 THEN <<>>
   ELSE IF RefSucceeds(k) THEN Append(RefWritten(k - 1), LineResult[input[k]].val)
   ELSE RefWritten(k - 1)

WriteFailed == \E i \in 1..Len(logs) : logs[i].kind = "write error"

ParseErrorsLogged == Cardinality({i \in 1..Len(logs) : logs[i].kind = "parse error"})

NonBlankLines == Cardinality({k \in 1..Len(input) : input[k] # <<>>})

(***************************************************************************)
(* Claims about the driver (checked under SpecDriver)                      *)
(***************************************************************************)
\* C14: at every moment the lines written to the output are the results of
\* NormalizeURL for the non-blank lines taken from the channel so far whose
\* normalization succeeded, in input order.
C14_OutputIsSuccessfulLines ==
   pc = "driver" => outFile = RefWritten(taken)

\* C14 (amended): the same, except that the last line taken contributes
\* nothing when writing it failed.
C14_OutputIsWrittenLines ==
   pc = "driver" =>
      outFile = RefWritten(IF WriteFailed THEN taken - 1 ELSE taken)

\* two different results written in input order, a failed line between
\* them, and then a line whose write failed
C14_Witness ==
   /\ pc = "driver"
   /\ WriteFailed
   /\ failed = 1
   /\ Len(outFile) = 2
   /\ outFile[1] # outFile[2]
   /\ taken = 4

\* C15: in strict mode, once a line has failed, the failure counter is 1,
\* main has left its loop, the last line taken is the first failing line of
\* the input, and the output is the results of the successful non-blank
\* lines before it; this holds from then on, so no further line is taken,
\* normalized or written.
C15_StrictAbortsOnFirstFailure ==
   (pc = "driver" /\ strictMode /\ failed > 0) =>
      /\ failed = 1
      /\ main \in {"summary", "done"}
      /\ RefFails(taken)
      /\ \A k \in 1..(taken - 1) : ~RefFails(k)
      /\ outFile = RefWritten(taken - 1)

\* a strict run ended by a failing line after a written one, with lines
\* left in the channel and in the input
C15_Witness ==
   /\ pc = "driver"
   /\ strictMode
   /\ main = "done"
   /\ failed = 1
   /\ Len(outFile) = 1
   /\ ch # <<>>
   /\ pos < Len(input)

C17_SummaryExact ==
   (pc = "driver" /\ main = "done") =>
      /\ logs # <<>>
      /\ logs[Len(logs)] = SummaryLog(Len(outFile), ParseErrorsLogged)
      /\ (~strictMode /\ ~WriteFailed) => succeeded + failed = NonBlankLines

(***************************************************************************)
(* Claim about the width check of parseNumber (checked under SpecIPv4)     *)
(***************************************************************************)
RECURSIVE RefLimit(_)
\* 255 multiplied by 255 once per byte after the first, little-endian
RefLimit(k) == IF k <= 1 THEN <<255>> ELSE RefMulAdd(RefLimit(k - 1), 255, 0)

\* a <= b for little-endian values without leading zero byte
RefLeq(a, b) ==
   \/ Len(a) < Len(b)
   \/ /\ Len(a) = Len(b)
      /\ \/ a = b
         \/ \E i \in 1..Len(a) : a[i] < b[i] /\ \A j \in (i + 1)..Len(a) : a[j] = b[j]

\* C21: a segment allotted k bytes passes the width check exactly when its
\* value is at most 255^k (255, 65025, 16581375, 4228250625 for k = 1..4):
\* an input of N <= 4 segments of valid digits is accepted exactly when each
\* segment before the last is at most 255 and the last at most 255^(5-N).
\* An accepted last segment fits in its 5-N bytes, and the octets before
\* them are the values of the segments before the last.
C21_WidthCheck ==
   /\ (/\ pc = "done"
       /\ Len(RefSegs) \in 1..4
       /\ \A i \in 1..Len(RefSegs) : RefWellFormed(RefSegs[i]))
      => LET N == Len(RefSegs)
         IN  /\ res.ok <=>
                   /\ \A i \in 1..(N - 1) : RefLeq(RefValue(RefSegs[i]), RefLimit(1))
                   /\ RefLeq(RefValue(RefSegs[N]), RefLimit(5 - N))
             /\ res.ok =>
                   /\ RefWidth(RefSegs[N]) <= 5 - N
                   /\ \A i \in 1..(N - 1) :
                         Split(res.val, ".")[i] = Itoa(RefByte(RefSegs[i], 1, 1))
   /\ (pc = "done"
       /\ raw \in {<<"1", "0", ".", "1", "6", ".", "5", "6", ".", "2", "5", "5">>, <<"3", "0", ".", "3", "1", ".", "6", "5", "0", "2", "5">>, <<"3", "0", ".", "1", "6", "5", "8", "1", "3", "7", "5">>, <<"4", "2", "2", "8", "2", "5", "0", "6", "2", "5">>})
      => res.ok
   /\ (pc = "done"
       /\ raw \in {<<"1", "0", ".", "1", "6", ".", "5", "6", ".", "2", "5", "6">>, <<"3", "0", ".", "3", "1", ".", "6", "5", "0", "2", "6">>, <<"3", "0", ".", "1", "6", "5", "8", "1", "3", "7", "6">>, <<"4", "2", "2", "8", "2", "5", "0", "6", "2", "6">>})
      => res = Fail("num too big for ip")

\* a last segment between 255^3 and 256^3 - 1 was rejected, and the largest
\* accepted one is in the state space too
C21_Witness ==
   /\ pc = "done"
   /\ raw = <<"3", "0", ".", "1", "6", "5", "8", "1", "3", "7", "6">>
   /\ ~res.ok
   /\ RefWidth(RefSegs[2]) = 3

(***************************************************************************)
(* Claim about the hand-over of lines (checked under SpecDriver)           *)
(***************************************************************************)
\* the lines that went into the channel are the first pos lines of the
\* input, or one fewer while the producer waits to send
RefSent == IF producer = "send" THEN pos - 1 ELSE pos

\* C22: the channel never holds more than 10 lines; nothing is dropped or
\* repeated: the channel holds, in order, the lines sent and not yet taken,
\* each with its 1-based number counted over all lines; every parse error
\* logged carries the number of a failing line taken; and when main has
\* returned from a non-strict run without a write error, the producer has
\* returned, the channel is empty and every line of the input was taken.
C22_EveryLineConsumedOnce ==
   pc = "driver" =>
      /\ Len(ch) <= ChanCap
      /\ taken + Len(ch) = RefSent
      /\ \A i \in 1..Len(ch) : ch[i] = Line(input[taken + i], taken + i)
      /\ \A i \in 1..Len(logs) :
            logs[i].kind = "parse error" =>
               /\ logs[i].pos \in 1..taken
               /\ logs[i].url = input[logs[i].pos]
               /\ RefFails(logs[i].pos)
      /\ (main = "done" /\ ~strictMode /\ ~WriteFailed) =>
            /\ producer = "done"
            /\ ch = <<>>
            /\ taken = Len(input)

(***************************************************************************)
(* Claims about the result of NormalizeURL as a whole (checked under Spec) *)
(***************************************************************************)
\* C23: a successful result of NormalizeURL has no two adjacent '/', in the
\* host, the path or the query; this holds of the result for the input and
\* of the result for that result.
C23_NoAdjacentSlashes ==
   /\ (pc \in {"done", "redone"} /\ res.ok) => RefNoAdjacent(res.val, sSep[1])
   /\ (pc = "redone" /\ res2.ok) => RefNoAdjacent(res2.val, sSep[1])

\* a query with two adjacent slashes, which only the collapse of the whole
\* result removes
C23_Witness ==
   /\ pc = "done"
   /\ raw = <<"a", ".", "c", "o", "m", "/", "?", "/", "/">>
   /\ res = Ok(<<"a", ".", "c", "o", "m", "/", "?", "/">>)

\* C24: for an input without ':' the result of NormalizeURL, a value or an
\* error, is the result for the input with "http://" put before it; so a
\* bare host that is spelled like a registered scheme comes back as a host.
C24_DefaultSchemePrepended ==
   (pc = "done" /\ ~HasByte(raw, ":")) =>
      res = NormalizeURL(DefaultScheme \o <<":", "/", "/">> \o raw)

(***************************************************************************)
(* NormalizeURL with its local values kept: the prepared text, the parsed  *)
(* URL, the normalized host, path and query and the text assembled before  *)
(* the post-normalization.                                                 *)
(***************************************************************************)
MaxFixAppend == 3

FixSeeds ==
   {
     <<>>,
     <<"f", "t", "p">>,
     <<"H", "T", "T", "P", "S", ":", "/">>,
     <<"a", ".", "c", "o", "m">>,
     <<"a", ".", "c", "o", "m", "/", "x", "/">>,
     <<"a", ".", "c", "o", "m", "/", "%", "z", "z">>,
     <<" ", "f", "t", "p", ":", "a", ".", "c", "o", "m", "/", ".">>
   }

FixTokens ==
   {
     <<"/">>, <<".">>, <<"?">>, <<"#">>, <<"%">>, <<"q">>, <<":">>, <<"%", "3", "F">>, <<"%", "2", "E">>
   }

NoLocals ==
   [u |-> NoURL, host |-> <<>>, path |-> <<>>, query |-> <<>>, built |-> <<>>]

\* the local values of NormalizeURL(rawIn) at its return
NormalizeURLLocals(rawIn) ==
   LET prepared == prepare(rawIn)
       queried(u, hp, path, query) ==
          IF ~query.ok THEN [NoLocals EXCEPT !.u = u, !.host = hp.val.Host, !.path = path.val]
          ELSE [u |-> u, host |-> hp.val.Host, path |-> path.val, query |-> query.val,
                built |-> buildResult(prepared, u, hp.val.Host, path.val, query.val)]
       pathed(u, hp, path) ==
          IF ~path.ok THEN [NoLocals EXCEPT !.u = u, !.host = hp.val.Host]
          ELSE queried(u, hp, path, normalizeQuery(u.RawQuery))
       hosted(u, hp) ==
          IF ~hp.ok THEN [NoLocals EXCEPT !.u = u]
          ELSE pathed(u, hp, normalizePath(EscapedPath(u)))
       parsed(u) ==
          IF ~u.ok THEN [NoLocals EXCEPT !.u = u]
          ELSE hosted(u, normalizeHost(u.Host))
   IN  parsed(parseUrl(prepared))

InitFix ==
   /\ pc = "input"
   /\ raw \in FixSeeds
   /\ added = 0
   /\ parts = NoParts
   /\ res = None
   /\ res2 = None
   /\ alt = <<>>
   /\ DriverIdle

ExtendFix(tok) ==
   /\ pc = "input"
   /\ added < MaxFixAppend
   /\ raw' = raw \o tok
   /\ added' = added + 1
   /\ UNCHANGED <<pc, parts, res, res2, alt>>
   /\ UNCHANGED driverVars

\* res, err := NormalizeURL(raw), with the call's local values in parts and
\* the prepared text in alt
NormalizeFix ==
   /\ pc = "input"
   /\ res' = NormalizeURL(raw)
   /\ parts' = NormalizeURLLocals(raw)
   /\ alt' = prepare(raw)
   /\ pc' = "fixed"
   /\ UNCHANGED <<raw, added, res2>>
   /\ UNCHANGED driverVars

NextFix ==
   \/ \E tok \in FixTokens : ExtendFix(tok)
   \/ NormalizeFix

SpecFix == InitFix /\ [][NextFix]_vars

(***************************************************************************)
(* Claim about the post-normalization (checked under SpecFix)              *)
(***************************************************************************)
\* the collapsed text with a trailing "/?" cut whenever the query has fewer
\* than two characters, whatever the scheme and the fragment, and then a
\* trailing "/." cut
RefFixedUp(built, query) ==
   LET r1 == RefCollapse(built, rSep, FALSE)
       r2 == IF HasSuffix(r1, <<"/", "?">>) /\ Len(query) < 2
             THEN SubSeq(r1, 1, Len(r1) - 2)
             ELSE r1
   IN  IF HasSuffix(r2, <<"/", ".">>) THEN SubSeq(r2, 1, Len(r2) - 2) ELSE r2

\* C25: a successful result ends with "/?" only when the normalized query
\* has at least two characters.
C25_SlashQueryNeedsQuery ==
   (pc = "fixed" /\ res.ok /\ HasSuffix(res.val, <<"/", "?">>)) =>
      Len(parts.query) >= 2

\* C25 (amended): the prepared text begins with a registered scheme and
\* "://", every URL parsed from it has that scheme, also after the retry
\* with "%25", and so a trailing "/?" of the collapsed text is cut whenever
\* the normalized query has fewer than two characters.  A successful result
\* that still ends with "/?" has a query of at least two characters or a
\* normalized path with a '?' in it.
C25_SchemeNeverEmpty ==
   pc = "fixed" =>
      /\ \E sch \in IANASchemes :
            /\ HasPrefix(alt, sch \o <<":", "/", "/">>)
            /\ parts.u.ok => parts.u.Scheme = sch
      /\ res.ok =>
            /\ parts.u.ok
            /\ res.val = RefFixedUp(parts.built, parts.query)
            /\ HasSuffix(res.val, <<"/", "?">>) =>
                  Len(parts.query) >= 2 \/ HasByte(parts.path, "?")

\* a trailing "/?" cut on account of the scheme alone, the scheme being the
\* default one added by prepare and the fragment empty
C25_Witness ==
   /\ pc = "fixed"
   /\ raw = <<"a", ".", "c", "o", "m", "/", "x", "/", "?">>
   /\ parts.u.ok
   /\ parts.u.Scheme = DefaultScheme
   /\ parts.u.Fragment = <<>>
   /\ parts.query = <<>>
   /\ parts.built = <<"a", ".", "c", "o", "m", "/", "x", "/", "?">>
   /\ res = Ok(<<"a", ".", "c", "o", "m", "/", "x">>)

====
